---- MODULE Spec2Model ----
(***************************************************************************)
(* Model of the generated Mailbox contract binding                         *)
(* (rust/main/cli/src/mailbox.rs): the MailboxCalls call multiplexer, the  *)
(* MailboxEvents log demultiplexer and the lazily initialised MAILBOX_ABI. *)
(*                                                                         *)
(* Byte strings are sequences over 0..255.  Host integers wider than TLC's *)
(* machine integers are kept as big-endian byte strings (a u32 is four     *)
(* bytes, an ABI word thirty-two), so every conversion between a host      *)
(* value and its ABI word is an operation on bytes.                        *)
(***************************************************************************)
EXTENDS Integers, Sequences, FiniteSets, TLC

VARIABLES
    kind,      \* "none" | "call" | "log" | "overload" | "return": the request in hand
    registry,  \* an overload request's registration order (struct names)
    topics,    \* the raw log's topics (sequence of 32-byte words)
    data,      \* the call data, or the raw log's data
    origin,    \* the typed value the request was encoded from, or NoValue
    edited,    \* "no" | "truncated" | "corrupted" | "raw" | "short": what was done to it
    result,    \* outcome of the decode, or NoResult before it ran
    once,      \* MAILBOX_ABI cell state: "incomplete" | "running" | "complete"
    cell,      \* MAILBOX_ABI cell content
    pc,        \* per thread: position inside an access to MAILBOX_ABI
    building,  \* per thread: the registry the initializer closure has built so far
    seen,      \* per thread: sequence of registry values the thread obtained
    held,      \* per thread: the Abis inside the Contracts of the Mailboxes it holds
    initRuns,  \* number of times the initializer closure was entered
    job,       \* per caller: the operation it is running and its own input
    at,        \* per caller: the attempt of the decode chain it has reached
    out,       \* per caller: what the operation returned, or NoResult
    fails      \* number of decodes that have returned Err so far (capped)

vars == <<kind, registry, topics, data, origin, edited, result,
          once, cell, pc, building, seen, held, initRuns, job, at, out, fails>>

codecVars == <<kind, registry, topics, data, origin, edited, result>>
lazyVars == <<once, cell, pc, building, seen, held, initRuns>>
parVars == <<job, at, out, fails>>

-----------------------------------------------------------------------------
(* Bounds of the model.                                                    *)

\* longest message body / metadata drawn for a `bytes` argument
MaxBody == 33
\* number of threads that access MAILBOX_ABI
NThreads == 3
\* accesses to MAILBOX_ABI each thread may make
MaxAccess == 2
\* threads of the specification of the whole layer
NSysThreads == 2
\* callers that run encode, decode and decode_log side by side
NCallers == 2
\* failed decodes that are counted
MaxFails == 1

-----------------------------------------------------------------------------
(* Byte strings and results.                                               *)

Zeros(n) == [i \in 1..n |-> 0]

Fill(n, b) == [i \in 1..n |-> b]

\* Result<T, E>, with the panic outcome made explicit.  `hi` is the exclusive
\* upper end of the highest byte range read to produce an Ok value.
Ok(v, h) == [kind |-> "Ok", val |-> v, err |-> "", hi |-> h]

Err(e) == [kind |-> "Err", val |-> <<>>, err |-> e, hi |-> 0]

Panic == [kind |-> "Panic", val |-> <<>>, err |-> "panic", hi |-> 0]

NoResult == [kind |-> "None", val |-> <<>>, err |-> "", hi |-> 0]

NoValue == [variant |-> "none", fields |-> <<>>]

Max(a, b) == IF a >= b THEN a ELSE b

\* Rust slice indexing data[a..b]: panics when the range leaves the slice.
index(d, a, b) ==
    IF a > b \/ b > Len(d) THEN Panic ELSE Ok(SubSeq(d, a + 1, b), b)

\* The `?` operator: an Err or a panic of r is the outcome, an Ok value goes on.
AndThen(r, F(_)) == IF r.kind # "Ok" THEN r ELSE F(r)

\* Result::map_err
MapErr(r, E(_)) == IF r.kind = "Err" THEN Err(E(r.err)) ELSE r

\* `if let Ok(decoded) = r { return F(decoded) }`, otherwise go on with rest
IfLetOk(r, F(_), rest) ==
    IF r.kind = "Panic" THEN r ELSE IF r.kind = "Ok" THEN F(r) ELSE rest

-----------------------------------------------------------------------------
(* ethabi: the word-level decoder and encoder the derived impls call.      *)

\* ethabi::decoder::peek: a bounds-checked view of len bytes at offset.
peek(d, offset, len) ==
    IF offset + len > Len(d) THEN Err("InvalidData")
    ELSE index(d, offset, offset + len)

peek_32_bytes(d, offset) == peek(d, offset, 32)

\* take_bytes that hands out the bytes there are when the range leaves the data
take_bytes_clamped(d, offset, len) ==
    IF offset + len > Len(d) THEN Ok(SubSeq(d, offset + 1, Len(d)), Len(d))
    ELSE index(d, offset, offset + len)

\* ethabi::decoder::take_bytes without validation: bounds check, then copy.
take_bytes(d, offset, len) ==
    IF offset + len > Len(d) THEN Err("InvalidData")
    ELSE index(d, offset, offset + len)

\* ethabi::decoder::as_usize: the upper 28 bytes must be zero, the lower four
\* are the value.  Values of 2^30 and more are all beyond every buffer of the
\* model and are represented by 2^30.
as_usize(w) ==
    IF \E i \in 1..28 : w[i] # 0 THEN Err("InvalidData")
    ELSE IF w[29] >= 64 THEN Ok(1073741824, 0)
    ELSE Ok(w[29] * 16777216 + w[30] * 65536 + w[31] * 256 + w[32], 0)

\* usize -> 32-byte big-endian word (ethabi::encoder::pad_u32).
pad_u32(n) ==
    Zeros(28) \o << (n \div 16777216) % 256, (n \div 65536) % 256,
                    (n \div 256) % 256, n % 256 >>

Token(t, v) == [t |-> t, v |-> v]

\* ethabi::decoder::as_bool: the upper 31 bytes must be zero, the value is
\* whether the last byte is 1.  A bool is held as one byte, 0 or 1.
as_bool(w) ==
    IF \E i \in 1..31 : w[i] # 0 THEN Err("InvalidData")
    ELSE Ok(<<IF w[32] = 1 THEN 1 ELSE 0>>, 0)

\* ethabi::decoder::decode_param for the parameter types of this contract.
decode_param(p, d, offset) ==
    CASE p \in {"uint8", "uint32", "uint64", "uint256"} ->
            AndThen(peek_32_bytes(d, offset), LAMBDA s :
                Ok(Token("Uint", s.val), s.hi))
      [] p = "address" ->
            AndThen(peek_32_bytes(d, offset), LAMBDA s :
                Ok(Token("Address", SubSeq(s.val, 13, 32)), s.hi))
      [] p = "bool" ->
            AndThen(peek_32_bytes(d, offset), LAMBDA s :
            AndThen(as_bool(s.val), LAMBDA b :
                Ok(Token("Bool", b.val), s.hi)))
      [] p = "bytes32" ->
            AndThen(take_bytes(d, offset, 32), LAMBDA s :
                Ok(Token("FixedBytes", s.val), s.hi))
      [] p = "bytes" ->
            AndThen(peek_32_bytes(d, offset), LAMBDA o :
            AndThen(as_usize(o.val), LAMBDA dynamic_offset :
            AndThen(peek_32_bytes(d, dynamic_offset.val), LAMBDA l :
            AndThen(as_usize(l.val), LAMBDA len :
            AndThen(take_bytes(d, dynamic_offset.val + 32, len.val), LAMBDA b :
                Ok(Token("Bytes", b.val), Max(o.hi, Max(l.hi, b.hi))))))))

\* the loop of ethabi::decode over the types, head slot i at offset 32 * (i - 1)
RECURSIVE decode_params(_, _, _, _, _)
decode_params(types, d, i, tokens, h) ==
    IF i > Len(types) THEN Ok(tokens, h)
    ELSE AndThen(decode_param(types[i], d, 32 * (i - 1)), LAMBDA r :
             decode_params(types, d, i + 1, Append(tokens, r.val), Max(h, r.hi)))

\* ParamType::is_empty_bytes_valid_encoding holds for none of the types used
\* here, so only the empty type list accepts empty data.
is_empty_bytes_valid_encoding(types) == types = <<>>

\* ethabi::decode(types, data)
abi_decode(types, d) ==
    IF ~is_empty_bytes_valid_encoding(types) /\ d = <<>> THEN Err("InvalidName")
    ELSE decode_params(types, d, 1, <<>>, 0)

is_dynamic(tok) == tok.t = "Bytes"

\* head words with the address and the bool in the leading bytes and the
\* fixed bytes in the trailing ones
static_word_left_aligned(tok) ==
    CASE tok.t = "Uint" -> tok.v
      [] tok.t = "Address" -> tok.v \o Zeros(12)
      [] tok.t = "Bool" -> tok.v \o Zeros(31)
      [] tok.t = "FixedBytes" -> Zeros(32 - Len(tok.v)) \o tok.v

\* the 32-byte head word of a static token: a Uint is the big-endian word,
\* an Address and a Bool are padded on the left, FixedBytes of up to 32
\* bytes on the right
static_word(tok) ==
    CASE tok.t = "Uint" -> tok.v
      [] tok.t = "Address" -> Zeros(12) \o tok.v
      [] tok.t = "Bool" -> Zeros(31) \o tok.v
      [] tok.t = "FixedBytes" -> tok.v \o Zeros(32 - Len(tok.v))

\* a tail whose content is not padded to a whole word
tail_of_unpadded(tok) ==
    IF tok.t = "Bytes" THEN pad_u32(Len(tok.v)) \o tok.v ELSE <<>>

\* the tail of a dynamic token: length word, content, zero padding to a word
tail_of(tok) ==
    IF is_dynamic(tok)
    THEN pad_u32(Len(tok.v)) \o tok.v \o Zeros((32 - (Len(tok.v) % 32)) % 32)
    ELSE <<>>

\* heads whose offsets are measured from the selector, four bytes earlier
RECURSIVE encode_heads_from_selector(_, _, _)
encode_heads_from_selector(tokens, i, off) ==
    IF i > Len(tokens) THEN <<>>
    ELSE IF is_dynamic(tokens[i])
         THEN pad_u32(off + 4)
                  \o encode_heads_from_selector(tokens, i + 1, off + Len(tail_of(tokens[i])))
         ELSE static_word(tokens[i]) \o encode_heads_from_selector(tokens, i + 1, off)

\* the head: a static token's word, a dynamic token's offset from the start
\* of the block; the first tail follows the last head slot
RECURSIVE encode_heads(_, _, _)
encode_heads(tokens, i, off) ==
    IF i > Len(tokens) THEN <<>>
    ELSE IF is_dynamic(tokens[i])
         THEN pad_u32(off) \o encode_heads(tokens, i + 1, off + Len(tail_of(tokens[i])))
         ELSE static_word(tokens[i]) \o encode_heads(tokens, i + 1, off)

RECURSIVE encode_tails(_, _)
encode_tails(tokens, i) ==
    IF i > Len(tokens) THEN <<>>
    ELSE tail_of(tokens[i]) \o encode_tails(tokens, i + 1)

\* ethabi::encode(tokens)
abi_encode(tokens) ==
    encode_heads(tokens, 1, 32 * Len(tokens)) \o encode_tails(tokens, 1)

-----------------------------------------------------------------------------
(* ethers Tokenizable: host field values <-> tokens.                       *)
(* Host values: u8 one byte, u32 four bytes, u64 eight bytes, U256         *)
(* thirty-two bytes, bool one byte (0 or 1),                               *)
(* [u8; 32], Address twenty bytes, Bytes any byte string.                  *)

into_token(p, x) ==
    CASE p = "uint8" -> Token("Uint", Zeros(31) \o x)
      [] p = "uint32" -> Token("Uint", Zeros(28) \o x)
      [] p = "uint64" -> Token("Uint", Zeros(24) \o x)
      [] p = "uint256" -> Token("Uint", x)
      [] p = "address" -> Token("Address", x)
      [] p = "bool" -> Token("Bool", x)
      [] p = "bytes32" -> Token("FixedBytes", x)
      [] p = "bytes" -> Token("Bytes", x)

\* a conversion that keeps only the low 32 bits of a u64
from_token_u64_as_u32(p, tok) ==
    CASE p = "uint8" /\ tok.t = "Uint" -> Ok(SubSeq(tok.v, 32, 32), 0)
      [] p = "uint32" /\ tok.t = "Uint" -> Ok(SubSeq(tok.v, 29, 32), 0)
      [] p = "uint64" /\ tok.t = "Uint" -> Ok(Zeros(4) \o SubSeq(tok.v, 29, 32), 0)
      [] p = "uint256" /\ tok.t = "Uint" -> Ok(tok.v, 0)
      [] p = "address" /\ tok.t = "Address" -> Ok(tok.v, 0)
      [] p = "bool" /\ tok.t = "Bool" -> Ok(tok.v, 0)
      [] p = "bytes32" /\ tok.t = "FixedBytes" /\ Len(tok.v) = 32 -> Ok(tok.v, 0)
      [] p = "bytes" /\ tok.t = "Bytes" -> Ok(tok.v, 0)
      [] OTHER -> Err("InvalidOutputType")

\* from_token: primitive integers keep the low-order bytes of the word
\* (`data.low_u128() as _`); a token of another kind is an error.
from_token(p, tok) ==
    CASE p = "uint8" /\ tok.t = "Uint" -> Ok(SubSeq(tok.v, 32, 32), 0)
      [] p = "uint32" /\ tok.t = "Uint" -> Ok(SubSeq(tok.v, 29, 32), 0)
      [] p = "uint64" /\ tok.t = "Uint" -> Ok(SubSeq(tok.v, 25, 32), 0)
      [] p = "uint256" /\ tok.t = "Uint" -> Ok(tok.v, 0)
      [] p = "address" /\ tok.t = "Address" -> Ok(tok.v, 0)
      [] p = "bool" /\ tok.t = "Bool" -> Ok(tok.v, 0)
      [] p = "bytes32" /\ tok.t = "FixedBytes" /\ Len(tok.v) = 32 -> Ok(tok.v, 0)
      [] p = "bytes" /\ tok.t = "Bytes" -> Ok(tok.v, 0)
      [] OTHER -> Err("InvalidOutputType")

into_tokens(types, xs) == [i \in 1..Len(types) |-> into_token(types[i], xs[i])]

RECURSIVE from_tokens(_, _, _, _)
from_tokens(types, tokens, i, acc) ==
    IF Len(tokens) # Len(types) THEN Err("InvalidOutputType")
    ELSE IF i > Len(types) THEN Ok(acc, 0)
    ELSE AndThen(from_token(types[i], tokens[i]), LAMBDA r :
             from_tokens(types, tokens, i + 1, Append(acc, r.val)))

-----------------------------------------------------------------------------
(* The call structs: #[derive(EthCall)] #[ethcall(name, abi)].             *)

\* Per call struct: the selector (first four bytes of keccak256 of the abi
\* signature, as documented on the struct and passed to method_hash) and the
\* parameter types of the abi signature, in field order.
EthCalls ==
    [ VersionCall |->
          [selector |-> <<255, 161, 173, 116>>,
           types |-> <<>>],
      DefaultHookCall |->
          [selector |-> <<61, 18, 80, 183>>,
           types |-> <<>>],
      DefaultIsmCall |->
          [selector |-> <<110, 95, 81, 110>>,
           types |-> <<>>],
      DeliveredCall |->
          [selector |-> <<228, 149, 241, 212>>,
           types |-> <<"bytes32">>],
      DeployedBlockCall |->
          [selector |-> <<130, 234, 123, 254>>,
           types |-> <<>>],
      Dispatch2Call |->
          [selector |-> <<16, 184, 61, 192>>,
           types |-> <<"uint32", "bytes32", "bytes", "bytes", "address">>],
      Dispatch1Call |->
          [selector |-> <<72, 174, 232, 212>>,
           types |-> <<"uint32", "bytes32", "bytes", "bytes">>],
      Dispatch0Call |->
          [selector |-> <<250, 49, 222, 1>>,
           types |-> <<"uint32", "bytes32", "bytes">>],
      InitializeCall |->
          [selector |-> <<248, 200, 118, 94>>,
           types |-> <<"address", "address", "address", "address">>],
      LatestDispatchedIdCall |->
          [selector |-> <<19, 79, 187, 79>>,
           types |-> <<>>],
      LocalDomainCall |->
          [selector |-> <<141, 54, 56, 244>>,
           types |-> <<>>],
      NonceCall |->
          [selector |-> <<175, 254, 208, 224>>,
           types |-> <<>>],
      OwnerCall |->
          [selector |-> <<141, 165, 203, 91>>,
           types |-> <<>>],
      ProcessCall |->
          [selector |-> <<124, 57, 209, 48>>,
           types |-> <<"bytes", "bytes">>],
      ProcessedAtCall |->
          [selector |-> <<7, 162, 253, 161>>,
           types |-> <<"bytes32">>],
      ProcessorCall |->
          [selector |-> <<93, 31, 229, 169>>,
           types |-> <<"bytes32">>],
      QuoteDispatchWithDestinationDomainAndRecipientAddressAndMetadataCall |->
          [selector |-> <<129, 210, 234, 149>>,
           types |-> <<"uint32", "bytes32", "bytes", "bytes", "address">>],
      QuoteDispatchCall |->
          [selector |-> <<156, 66, 189, 24>>,
           types |-> <<"uint32", "bytes32", "bytes">>],
      QuoteDispatchWithDestinationDomainAndRecipientAddressAndDefaultHookMetadataCall |->
          [selector |-> <<247, 204, 211, 33>>,
           types |-> <<"uint32", "bytes32", "bytes", "bytes">>],
      RecipientIsmCall |->
          [selector |-> <<231, 15, 72, 172>>,
           types |-> <<"address">>],
      RenounceOwnershipCall |->
          [selector |-> <<113, 80, 24, 166>>,
           types |-> <<>>],
      RequiredHookCall |->
          [selector |-> <<214, 208, 138, 9>>,
           types |-> <<>>],
      SetDefaultHookCall |->
          [selector |-> <<153, 176, 72, 9>>,
           types |-> <<"address">>],
      SetDefaultIsmCall |->
          [selector |-> <<247, 148, 104, 122>>,
           types |-> <<"address">>],
      SetRequiredHookCall |->
          [selector |-> <<20, 38, 183, 244>>,
           types |-> <<"address">>],
      TransferOwnershipCall |->
          [selector |-> <<242, 253, 227, 139>>,
           types |-> <<"address">>] ]

\* AbiError values: <<variant, inner ethabi error>>
WrongSelector == <<"WrongSelector", "">>

DecodingError(e) == <<"DecodingError", e>>

DetokenizationError(e) == <<"DetokenizationError", e>>

\* a decode that rejects call data with bytes left after the last argument
\* (abi::decode_validate in place of abi::decode)
EthCall_decode_strict(s, bytes) ==
    IF Len(bytes) < 4 THEN Err(WrongSelector)
    ELSE AndThen(index(bytes, 0, 4), LAMBDA sel :
         IF sel.val # s.selector THEN Err(WrongSelector)
         ELSE AndThen(MapErr(abi_decode(s.types, SubSeq(bytes, 5, Len(bytes))),
                             DecodingError), LAMBDA data_tokens :
              IF 4 + data_tokens.hi # Len(bytes)
              THEN Err(DecodingError("InvalidData"))
              ELSE AndThen(MapErr(from_tokens(s.types, data_tokens.val, 1, <<>>),
                                  DetokenizationError), LAMBDA v :
                       Ok(v.val, 4 + data_tokens.hi))))

\* a decode that compares only as many selector bytes as the data has
EthCall_decode_prefix_match(s, bytes) ==
    LET n == IF Len(bytes) < 4 THEN Len(bytes) ELSE 4
    IN  IF SubSeq(bytes, 1, n) # SubSeq(s.selector, 1, n) THEN Err(WrongSelector)
        ELSE AndThen(MapErr(abi_decode(s.types, SubSeq(bytes, 5, Len(bytes))),
                            DecodingError), LAMBDA data_tokens :
             AndThen(MapErr(from_tokens(s.types, data_tokens.val, 1, <<>>),
                            DetokenizationError), LAMBDA v :
                 Ok(v.val, n + data_tokens.hi)))

\* a decode that tells the call structs apart by the first selector byte only
EthCall_decode_first_byte(s, bytes) ==
    IF Len(bytes) < 4 THEN Err(WrongSelector)
    ELSE AndThen(index(bytes, 0, 4), LAMBDA sel :
         IF sel.val[1] # s.selector[1] THEN Err(WrongSelector)
         ELSE AndThen(MapErr(abi_decode(s.types, SubSeq(bytes, 5, Len(bytes))),
                             DecodingError), LAMBDA data_tokens :
              AndThen(MapErr(from_tokens(s.types, data_tokens.val, 1, <<>>),
                             DetokenizationError), LAMBDA v :
                  Ok(v.val, 4 + data_tokens.hi))))

\* a decode that does not compare the first four bytes with the selector
EthCall_decode_any_selector(s, bytes) ==
    IF Len(bytes) < 4 THEN Err(WrongSelector)
    ELSE AndThen(MapErr(abi_decode(s.types, SubSeq(bytes, 5, Len(bytes))),
                        DecodingError), LAMBDA data_tokens :
         AndThen(MapErr(from_tokens(s.types, data_tokens.val, 1, <<>>),
                        DetokenizationError), LAMBDA v :
             Ok(v.val, 4 + data_tokens.hi)))

\* #[derive(EthCall)]: AbiDecode::decode of one call struct s.
\*   if bytes.len() < 4 || bytes[..4] != selector { return Err(WrongSelector) }
\*   let data_tokens = abi::decode(&data_types, &bytes[4..])?;
\*   Ok(Self::from_token(Token::Tuple(data_tokens))?)
EthCall_decode(s, bytes) ==
    IF Len(bytes) < 4 THEN Err(WrongSelector)
    ELSE AndThen(index(bytes, 0, 4), LAMBDA sel :
         IF sel.val # s.selector THEN Err(WrongSelector)
         ELSE AndThen(MapErr(abi_decode(s.types, SubSeq(bytes, 5, Len(bytes))),
                             DecodingError), LAMBDA data_tokens :
              AndThen(MapErr(from_tokens(s.types, data_tokens.val, 1, <<>>),
                             DetokenizationError), LAMBDA v :
                  Ok(v.val, 4 + data_tokens.hi))))

\* #[derive(EthCall)]: AbiEncode::encode of one call struct s with its fields.
EthCall_encode(s, fields) ==
    s.selector \o abi_encode(into_tokens(s.types, fields))

-----------------------------------------------------------------------------
(* enum MailboxCalls and its AbiDecode / AbiEncode impls.                  *)

\* The variants in declaration order, each with its payload struct.
MailboxCalls ==
    << [variant |-> "Version",
        struct |-> "VersionCall"],
       [variant |-> "DefaultHook",
        struct |-> "DefaultHookCall"],
       [variant |-> "DefaultIsm",
        struct |-> "DefaultIsmCall"],
       [variant |-> "Delivered",
        struct |-> "DeliveredCall"],
       [variant |-> "DeployedBlock",
        struct |-> "DeployedBlockCall"],
       [variant |-> "Dispatch2",
        struct |-> "Dispatch2Call"],
       [variant |-> "Dispatch1",
        struct |-> "Dispatch1Call"],
       [variant |-> "Dispatch0",
        struct |-> "Dispatch0Call"],
       [variant |-> "Initialize",
        struct |-> "InitializeCall"],
       [variant |-> "LatestDispatchedId",
        struct |-> "LatestDispatchedIdCall"],
       [variant |-> "LocalDomain",
        struct |-> "LocalDomainCall"],
       [variant |-> "Nonce",
        struct |-> "NonceCall"],
       [variant |-> "Owner",
        struct |-> "OwnerCall"],
       [variant |-> "Process",
        struct |-> "ProcessCall"],
       [variant |-> "ProcessedAt",
        struct |-> "ProcessedAtCall"],
       [variant |-> "Processor",
        struct |-> "ProcessorCall"],
       [variant |-> "QuoteDispatchWithDestinationDomainAndRecipientAddressAndMetadata",
        struct |-> "QuoteDispatchWithDestinationDomainAndRecipientAddressAndMetadataCall"],
       [variant |-> "QuoteDispatch",
        struct |-> "QuoteDispatchCall"],
       [variant |-> "QuoteDispatchWithDestinationDomainAndRecipientAddressAndDefaultHookMetadata",
        struct |-> "QuoteDispatchWithDestinationDomainAndRecipientAddressAndDefaultHookMetadataCall"],
       [variant |-> "RecipientIsm",
        struct |-> "RecipientIsmCall"],
       [variant |-> "RenounceOwnership",
        struct |-> "RenounceOwnershipCall"],
       [variant |-> "RequiredHook",
        struct |-> "RequiredHookCall"],
       [variant |-> "SetDefaultHook",
        struct |-> "SetDefaultHookCall"],
       [variant |-> "SetDefaultIsm",
        struct |-> "SetDefaultIsmCall"],
       [variant |-> "SetRequiredHook",
        struct |-> "SetRequiredHookCall"],
       [variant |-> "TransferOwnership",
        struct |-> "TransferOwnershipCall"] >>

\* the chain of attempts with the attempt for ProcessCall left out
MailboxCallsDecodeChain_no_process ==
    LET kept == SelectSeq(MailboxCalls, LAMBDA a : a.variant # "Process")
    IN  [i \in 1..Len(kept) |-> [struct |-> kept[i].struct, variant |-> kept[i].variant]]

\* The `if let Ok(decoded) = <XCall as AbiDecode>::decode(data.as_ref())
\* { return Ok(MailboxCalls::X(decoded)) }` attempts, in the order written.
MailboxCallsDecodeChain ==
    << [struct |-> "VersionCall",
        variant |-> "Version"],
       [struct |-> "DefaultHookCall",
        variant |-> "DefaultHook"],
       [struct |-> "DefaultIsmCall",
        variant |-> "DefaultIsm"],
       [struct |-> "DeliveredCall",
        variant |-> "Delivered"],
       [struct |-> "DeployedBlockCall",
        variant |-> "DeployedBlock"],
       [struct |-> "Dispatch2Call",
        variant |-> "Dispatch2"],
       [struct |-> "Dispatch1Call",
        variant |-> "Dispatch1"],
       [struct |-> "Dispatch0Call",
        variant |-> "Dispatch0"],
       [struct |-> "InitializeCall",
        variant |-> "Initialize"],
       [struct |-> "LatestDispatchedIdCall",
        variant |-> "LatestDispatchedId"],
       [struct |-> "LocalDomainCall",
        variant |-> "LocalDomain"],
       [struct |-> "NonceCall",
        variant |-> "Nonce"],
       [struct |-> "OwnerCall",
        variant |-> "Owner"],
       [struct |-> "ProcessCall",
        variant |-> "Process"],
       [struct |-> "ProcessedAtCall",
        variant |-> "ProcessedAt"],
       [struct |-> "ProcessorCall",
        variant |-> "Processor"],
       [struct |-> "QuoteDispatchWithDestinationDomainAndRecipientAddressAndMetadataCall",
        variant |-> "QuoteDispatchWithDestinationDomainAndRecipientAddressAndMetadata"],
       [struct |-> "QuoteDispatchCall",
        variant |-> "QuoteDispatch"],
       [struct |-> "QuoteDispatchWithDestinationDomainAndRecipientAddressAndDefaultHookMetadataCall",
        variant |-> "QuoteDispatchWithDestinationDomainAndRecipientAddressAndDefaultHookMetadata"],
       [struct |-> "RecipientIsmCall",
        variant |-> "RecipientIsm"],
       [struct |-> "RenounceOwnershipCall",
        variant |-> "RenounceOwnership"],
       [struct |-> "RequiredHookCall",
        variant |-> "RequiredHook"],
       [struct |-> "SetDefaultHookCall",
        variant |-> "SetDefaultHook"],
       [struct |-> "SetDefaultIsmCall",
        variant |-> "SetDefaultIsm"],
       [struct |-> "SetRequiredHookCall",
        variant |-> "SetRequiredHook"],
       [struct |-> "TransferOwnershipCall",
        variant |-> "TransferOwnership"] >>

Call(variant, fields) == [variant |-> variant, fields |-> fields]

\* a chain whose attempts do not return: a later Ok replaces an earlier one
RECURSIVE decode_chain_last_match(_, _, _, _)
decode_chain_last_match(chain, structs, bytes, i) ==
    IF i > Len(chain) THEN Err(DecodingError("InvalidData"))
    ELSE IfLetOk(decode_chain_last_match(chain, structs, bytes, i + 1),
                 LAMBDA later : later,
                 IfLetOk(EthCall_decode(structs[chain[i].struct], bytes),
                         LAMBDA decoded : Ok(Call(chain[i].variant, decoded.val), decoded.hi),
                         Err(DecodingError("InvalidData"))))

\* a chain that picks the first schema with the data's selector and stands by
\* that schema's outcome
RECURSIVE decode_chain_by_selector(_, _, _, _)
decode_chain_by_selector(chain, structs, bytes, i) ==
    IF i > Len(chain) THEN Err(DecodingError("InvalidData"))
    ELSE IF Len(bytes) >= 4 /\ SubSeq(bytes, 1, 4) = structs[chain[i].struct].selector
         THEN IfLetOk(EthCall_decode(structs[chain[i].struct], bytes),
                      LAMBDA decoded : Ok(Call(chain[i].variant, decoded.val), decoded.hi),
                      Err(DecodingError("InvalidData")))
         ELSE decode_chain_by_selector(chain, structs, bytes, i + 1)

\* a chain whose attempt is written `let decoded = XCall::decode(data)?;`
decode_chain_question_mark(chain, structs, bytes, i) ==
    IF i > Len(chain) THEN Err(DecodingError("InvalidData"))
    ELSE AndThen(EthCall_decode(structs[chain[i].struct], bytes), LAMBDA decoded :
             Ok(Call(chain[i].variant, decoded.val), decoded.hi))

\* One pass over a chain of attempts: the first attempt that returns Ok wins,
\* an Err moves on to the next attempt, after the last attempt the function
\* returns Err(Error::InvalidData.into()).
RECURSIVE decode_chain(_, _, _, _)
decode_chain(chain, structs, bytes, i) ==
    IF i > Len(chain) THEN Err(DecodingError("InvalidData"))
    ELSE IfLetOk(EthCall_decode(structs[chain[i].struct], bytes),
                 LAMBDA decoded : Ok(Call(chain[i].variant, decoded.val), decoded.hi),
                 decode_chain(chain, structs, bytes, i + 1))

\* the multiplexer ending in `.unwrap()` instead of returning the error
MailboxCalls_decode_unwrap(bytes) ==
    IfLetOk(decode_chain(MailboxCallsDecodeChain, EthCalls, bytes, 1),
            LAMBDA r : r, Panic)

\* the multiplexer ending in Err(AbiError::WrongSelector)
MailboxCalls_decode_wrong_selector(bytes) ==
    IfLetOk(decode_chain(MailboxCallsDecodeChain, EthCalls, bytes, 1),
            LAMBDA r : r, Err(WrongSelector))

\* impl AbiDecode for MailboxCalls
MailboxCalls_decode(bytes) ==
    decode_chain(MailboxCallsDecodeChain, EthCalls, bytes, 1)

\* impl AbiEncode for MailboxCalls: match self { X(element) => element.encode() }
MailboxCalls_encode(c) ==
    LET arm == CHOOSE a \in {MailboxCalls[i] : i \in 1..Len(MailboxCalls)} :
                   a.variant = c.variant
    IN  EthCall_encode(EthCalls[arm.struct], c.fields)

-----------------------------------------------------------------------------
(* impl From<XCall> for MailboxCalls, one per call struct.                 *)

\* conversions that wrap OwnerCall as Nonce and NonceCall as Owner
MailboxCalls_From_swapped ==
    << [struct |-> "VersionCall",
        variant |-> "Version"],
       [struct |-> "DefaultHookCall",
        variant |-> "DefaultHook"],
       [struct |-> "DefaultIsmCall",
        variant |-> "DefaultIsm"],
       [struct |-> "DeliveredCall",
        variant |-> "Delivered"],
       [struct |-> "DeployedBlockCall",
        variant |-> "DeployedBlock"],
       [struct |-> "Dispatch2Call",
        variant |-> "Dispatch2"],
       [struct |-> "Dispatch1Call",
        variant |-> "Dispatch1"],
       [struct |-> "Dispatch0Call",
        variant |-> "Dispatch0"],
       [struct |-> "InitializeCall",
        variant |-> "Initialize"],
       [struct |-> "LatestDispatchedIdCall",
        variant |-> "LatestDispatchedId"],
       [struct |-> "LocalDomainCall",
        variant |-> "LocalDomain"],
       [struct |-> "NonceCall",
        variant |-> "Owner"],
       [struct |-> "OwnerCall",
        variant |-> "Nonce"],
       [struct |-> "ProcessCall",
        variant |-> "Process"],
       [struct |-> "ProcessedAtCall",
        variant |-> "ProcessedAt"],
       [struct |-> "ProcessorCall",
        variant |-> "Processor"],
       [struct |-> "QuoteDispatchWithDestinationDomainAndRecipientAddressAndMetadataCall",
        variant |-> "QuoteDispatchWithDestinationDomainAndRecipientAddressAndMetadata"],
       [struct |-> "QuoteDispatchCall",
        variant |-> "QuoteDispatch"],
       [struct |-> "QuoteDispatchWithDestinationDomainAndRecipientAddressAndDefaultHookMetadataCall",
        variant |-> "QuoteDispatchWithDestinationDomainAndRecipientAddressAndDefaultHookMetadata"],
       [struct |-> "RecipientIsmCall",
        variant |-> "RecipientIsm"],
       [struct |-> "RenounceOwnershipCall",
        variant |-> "RenounceOwnership"],
       [struct |-> "RequiredHookCall",
        variant |-> "RequiredHook"],
       [struct |-> "SetDefaultHookCall",
        variant |-> "SetDefaultHook"],
       [struct |-> "SetDefaultIsmCall",
        variant |-> "SetDefaultIsm"],
       [struct |-> "SetRequiredHookCall",
        variant |-> "SetRequiredHook"],
       [struct |-> "TransferOwnershipCall",
        variant |-> "TransferOwnership"] >>

\* The 26 impls in source order: the struct converted and the variant built.
MailboxCalls_From ==
    << [struct |-> "VersionCall",
        variant |-> "Version"],
       [struct |-> "DefaultHookCall",
        variant |-> "DefaultHook"],
       [struct |-> "DefaultIsmCall",
        variant |-> "DefaultIsm"],
       [struct |-> "DeliveredCall",
        variant |-> "Delivered"],
       [struct |-> "DeployedBlockCall",
        variant |-> "DeployedBlock"],
       [struct |-> "Dispatch2Call",
        variant |-> "Dispatch2"],
       [struct |-> "Dispatch1Call",
        variant |-> "Dispatch1"],
       [struct |-> "Dispatch0Call",
        variant |-> "Dispatch0"],
       [struct |-> "InitializeCall",
        variant |-> "Initialize"],
       [struct |-> "LatestDispatchedIdCall",
        variant |-> "LatestDispatchedId"],
       [struct |-> "LocalDomainCall",
        variant |-> "LocalDomain"],
       [struct |-> "NonceCall",
        variant |-> "Nonce"],
       [struct |-> "OwnerCall",
        variant |-> "Owner"],
       [struct |-> "ProcessCall",
        variant |-> "Process"],
       [struct |-> "ProcessedAtCall",
        variant |-> "ProcessedAt"],
       [struct |-> "ProcessorCall",
        variant |-> "Processor"],
       [struct |-> "QuoteDispatchWithDestinationDomainAndRecipientAddressAndMetadataCall",
        variant |-> "QuoteDispatchWithDestinationDomainAndRecipientAddressAndMetadata"],
       [struct |-> "QuoteDispatchCall",
        variant |-> "QuoteDispatch"],
       [struct |-> "QuoteDispatchWithDestinationDomainAndRecipientAddressAndDefaultHookMetadataCall",
        variant |-> "QuoteDispatchWithDestinationDomainAndRecipientAddressAndDefaultHookMetadata"],
       [struct |-> "RecipientIsmCall",
        variant |-> "RecipientIsm"],
       [struct |-> "RenounceOwnershipCall",
        variant |-> "RenounceOwnership"],
       [struct |-> "RequiredHookCall",
        variant |-> "RequiredHook"],
       [struct |-> "SetDefaultHookCall",
        variant |-> "SetDefaultHook"],
       [struct |-> "SetDefaultIsmCall",
        variant |-> "SetDefaultIsm"],
       [struct |-> "SetRequiredHookCall",
        variant |-> "SetRequiredHook"],
       [struct |-> "TransferOwnershipCall",
        variant |-> "TransferOwnership"] >>

\* MailboxCalls::from(var) for a call struct with its fields
MailboxCalls_from(struct, fields) ==
    LET impl == CHOOSE e \in { MailboxCalls_From[i] : i \in 1..Len(MailboxCalls_From) } :
                    e.struct = struct
    IN  Call(impl.variant, fields)

-----------------------------------------------------------------------------
(* The 19 return structs, #[derive(EthAbiType, EthAbiCodec)].              *)

\* Each struct with the function it belongs to and the parameter type its
\* host field has (u8: uint8, u32: uint32, u64: uint64, U256: uint256,
\* bool: bool, Address: address, [u8; 32]: bytes32).
EthReturns ==
    [ VersionReturn |->
          [function |-> "VERSION()",
           types |-> <<"uint8">>],
      DefaultHookReturn |->
          [function |-> "defaultHook()",
           types |-> <<"address">>],
      DefaultIsmReturn |->
          [function |-> "defaultIsm()",
           types |-> <<"address">>],
      DeliveredReturn |->
          [function |-> "delivered(bytes32)",
           types |-> <<"bool">>],
      DeployedBlockReturn |->
          [function |-> "deployedBlock()",
           types |-> <<"uint256">>],
      Dispatch2Return |->
          [function |-> "dispatch(uint32,bytes32,bytes,bytes,address)",
           types |-> <<"bytes32">>],
      Dispatch1Return |->
          [function |-> "dispatch(uint32,bytes32,bytes,bytes)",
           types |-> <<"bytes32">>],
      Dispatch0Return |->
          [function |-> "dispatch(uint32,bytes32,bytes)",
           types |-> <<"bytes32">>],
      LatestDispatchedIdReturn |->
          [function |-> "latestDispatchedId()",
           types |-> <<"bytes32">>],
      LocalDomainReturn |->
          [function |-> "localDomain()",
           types |-> <<"uint32">>],
      NonceReturn |->
          [function |-> "nonce()",
           types |-> <<"uint32">>],
      OwnerReturn |->
          [function |-> "owner()",
           types |-> <<"address">>],
      ProcessedAtReturn |->
          [function |-> "processedAt(bytes32)",
           types |-> <<"uint64">>],
      ProcessorReturn |->
          [function |-> "processor(bytes32)",
           types |-> <<"address">>],
      QuoteDispatchWithDestinationDomainAndRecipientAddressAndMetadataReturn |->
          [function |-> "quoteDispatch(uint32,bytes32,bytes,bytes,address)",
           types |-> <<"uint256">>],
      QuoteDispatchReturn |->
          [function |-> "quoteDispatch(uint32,bytes32,bytes)",
           types |-> <<"uint256">>],
      QuoteDispatchWithDestinationDomainAndRecipientAddressAndDefaultHookMetadataReturn |->
          [function |-> "quoteDispatch(uint32,bytes32,bytes,bytes)",
           types |-> <<"uint256">>],
      RecipientIsmReturn |->
          [function |-> "recipientIsm(address)",
           types |-> <<"address">>],
      RequiredHookReturn |->
          [function |-> "requiredHook()",
           types |-> <<"address">>] ]

\* #[derive(EthAbiCodec)]: AbiEncode::encode of one return struct r
\*   let tokens = self.into_tokens(); abi::encode(&tokens)
EthAbiCodec_encode(r, fields) ==
    abi_encode(into_tokens(r.types, fields))

\* #[derive(EthAbiCodec)]: AbiDecode::decode of one return struct r
\*   let tokens = abi::decode(&params, bytes)?;
\*   Ok(Self::from_token(Token::Tuple(tokens))?)
EthAbiCodec_decode(r, bytes) ==
    AndThen(MapErr(abi_decode(r.types, bytes), DecodingError), LAMBDA data_tokens :
    AndThen(MapErr(from_tokens(r.types, data_tokens.val, 1, <<>>),
                   DetokenizationError), LAMBDA v :
        Ok(v.val, data_tokens.hi)))

-----------------------------------------------------------------------------
(* Inputs of the model.                                                    *)

U32s == { <<0, 0, 0, 7>>, <<255, 255, 255, 255>> }

B32s == { Zeros(31) \o <<1>>, Fill(32, 255) }

Addrs == { Zeros(19) \o <<1>>, Fill(20, 171) }

\* a message body of n bytes: "hi" followed by non-zero filler
Body(n) == [i \in 1..n |-> IF i = 1 THEN 104 ELSE IF i = 2 THEN 105 ELSE 1 + (i % 250)]

Bodies == { Body(0), Body(2), Body(MaxBody) }

HostValues(p) ==
    CASE p = "uint32" -> U32s
      [] p = "bytes32" -> B32s
      [] p = "address" -> Addrs
      [] p = "bytes" -> Bodies
      [] p = "uint8" -> { <<2>>, <<255>> }
      [] p = "uint64" -> { Zeros(7) \o <<7>>, Fill(8, 255) }
      [] p = "uint256" -> { Zeros(31) \o <<7>>, Fill(32, 255) }
      [] p = "bool" -> { <<0>>, <<1>> }

\* the value a field has while another field is varied
HostBase(p) ==
    CASE p = "uint32" -> <<0, 0, 0, 7>>
      [] p = "bytes32" -> Zeros(31) \o <<1>>
      [] p = "address" -> Fill(20, 171)
      [] p = "bytes" -> Body(2)
      [] p = "uint8" -> <<2>>
      [] p = "uint64" -> Zeros(7) \o <<7>>
      [] p = "uint256" -> Zeros(31) \o <<7>>
      [] p = "bool" -> <<1>>

BaseFields(types) == [i \in 1..Len(types) |-> HostBase(types[i])]

\* the field vectors that differ from the base vector in at most one field
FieldValues(types) ==
    { BaseFields(types) } \cup
    UNION { { [BaseFields(types) EXCEPT ![i] = x] : x \in HostValues(types[i]) } :
            i \in 1..Len(types) }

\* every variant of MailboxCalls with each of its field vectors
CallValues ==
    UNION { { Call(MailboxCalls[i].variant, f) :
                f \in FieldValues(EthCalls[MailboxCalls[i].struct].types) } :
            i \in 1..Len(MailboxCalls) }

-----------------------------------------------------------------------------
(* The event structs: #[derive(EthEvent)] #[ethevent(name, abi)].          *)

\* keccak256("Dispatch(address,uint32,bytes32,bytes)")
DispatchSignature ==
    << 118, 159, 113, 29, 32, 198, 121, 21, 61, 56, 34, 84, 245, 152, 146, 97,
       59, 88, 169, 124, 200, 118, 178, 73, 19, 74, 194, 92, 128, 249, 200, 20 >>

\* DispatchFilter with #[ethevent(indexed)] left off the recipient field
DispatchFilter_recipient_not_indexed ==
    [signature |-> DispatchSignature,
     fields |-> << [type |-> "address", indexed |-> TRUE],
                   [type |-> "uint32", indexed |-> TRUE],
                   [type |-> "bytes32", indexed |-> FALSE],
                   [type |-> "bytes", indexed |-> FALSE] >>]

\* pub struct DispatchFilter { sender, destination, recipient, message }
DispatchFilter ==
    [signature |-> DispatchSignature,
     fields |-> << [type |-> "address", indexed |-> TRUE],
                   [type |-> "uint32", indexed |-> TRUE],
                   [type |-> "bytes32", indexed |-> TRUE],
                   [type |-> "bytes", indexed |-> FALSE] >>]

\* Per event struct: signature() (keccak256 of the abi signature, topic 0)
\* and the fields in declaration order with their #[ethevent(indexed)] flag.
EthEvents ==
    [ DefaultHookSetFilter |->
          [signature |->
              << 101, 166, 62, 80, 102, 238, 47, 205, 249, 211, 42, 127, 27, 247, 206, 113,
                 199, 96, 102, 241, 157, 6, 9, 221, 220, 205, 51, 74, 184, 114, 55, 215 >>,
           fields |-> << [type |-> "address", indexed |-> TRUE] >>],
      DefaultIsmSetFilter |->
          [signature |->
              << 167, 106, 208, 173, 191, 69, 49, 143, 134, 51, 170, 2, 16, 247, 17, 39,
                 61, 80, 251, 182, 254, 247, 110, 217, 91, 186, 233, 112, 130, 199, 93, 170 >>,
           fields |-> << [type |-> "address", indexed |-> TRUE] >>],
      DispatchFilter |-> DispatchFilter,
      DispatchIdFilter |->
          [signature |->
              << 120, 141, 188, 27, 113, 82, 115, 33, 120, 33, 14, 127, 77, 157, 1, 14,
                 240, 22, 249, 234, 251, 230, 103, 134, 189, 113, 105, 245, 110, 12, 53, 58 >>,
           fields |-> << [type |-> "bytes32", indexed |-> TRUE] >>],
      InitializedFilter |->
          [signature |->
              << 127, 38, 184, 63, 249, 110, 31, 43, 106, 104, 47, 19, 56, 82, 246, 121,
                 138, 9, 196, 101, 218, 149, 146, 20, 96, 206, 251, 56, 71, 64, 36, 152 >>,
           fields |-> << [type |-> "uint8", indexed |-> FALSE] >>],
      OwnershipTransferredFilter |->
          [signature |->
              << 139, 224, 7, 156, 83, 22, 89, 20, 19, 68, 205, 31, 208, 164, 242, 132,
                 25, 73, 127, 151, 34, 163, 218, 175, 227, 180, 24, 111, 107, 100, 87, 224 >>,
           fields |-> << [type |-> "address", indexed |-> TRUE], [type |-> "address", indexed |-> TRUE] >>],
      ProcessFilter |->
          [signature |->
              << 13, 56, 28, 42, 87, 74, 232, 240, 78, 33, 61, 183, 207, 180, 223, 141,
                 247, 18, 205, 189, 66, 125, 152, 104, 255, 239, 56, 6, 96, 202, 101, 116 >>,
           fields |-> << [type |-> "uint32", indexed |-> TRUE], [type |-> "bytes32", indexed |-> TRUE], [type |-> "address", indexed |-> TRUE] >>],
      ProcessIdFilter |->
          [signature |->
              << 28, 174, 56, 205, 211, 211, 145, 148, 137, 39, 39, 37, 165, 174, 98, 164,
                 244, 139, 41, 137, 176, 218, 232, 67, 211, 194, 121, 254, 225, 128, 115, 169 >>,
           fields |-> << [type |-> "bytes32", indexed |-> TRUE] >>],
      RequiredHookSetFilter |->
          [signature |->
              << 50, 158, 200, 226, 67, 138, 115, 130, 142, 207, 49, 166, 86, 141, 122, 145,
                 215, 177, 215, 158, 52, 43, 6, 146, 145, 79, 208, 83, 209, 160, 2, 177 >>,
           fields |-> << [type |-> "address", indexed |-> TRUE] >>] ]

RawLog(ts, d) == [topics |-> ts, data |-> d]

Event(variant, fields) == [variant |-> variant, fields |-> fields]

\* an indexed field of reference type appears in the topics as its hash
TopicType(p) == IF p = "bytes" THEN "bytes32" ELSE p

FieldTypes(e, ix) ==
    LET fs == SelectSeq(e.fields, LAMBDA f : f.indexed = ix)
    IN  [i \in 1..Len(fs) |-> fs[i].type]

\* topic_types: the indexed fields' types as they appear in the topics
TopicTypes(e) ==
    [i \in 1..Len(FieldTypes(e, TRUE)) |-> TopicType(FieldTypes(e, TRUE)[i])]

AllFieldTypes(e) == [i \in 1..Len(e.fields) |-> e.fields[i].type]

RECURSIVE flat(_, _)
flat(ts, i) == IF i > Len(ts) THEN <<>> ELSE ts[i] \o flat(ts, i + 1)

\* the tokens put back in field declaration order
RECURSIVE tokens_init(_, _, _, _)
tokens_init(fields, k, topic_tokens, data_tokens) ==
    IF k > Len(fields) THEN <<>>
    ELSE IF fields[k].indexed
         THEN <<Head(topic_tokens)>>
                  \o tokens_init(fields, k + 1, Tail(topic_tokens), data_tokens)
         ELSE <<Head(data_tokens)>>
                  \o tokens_init(fields, k + 1, topic_tokens, Tail(data_tokens))

\* a decode_log that does not compare topic 0 with the event's signature
EthEvent_decode_log_any_signature(e, log) ==
    IF Len(log.topics) = 0 THEN Err("InvalidData")
    ELSE AndThen(abi_decode(TopicTypes(e), flat(log.topics, 2)), LAMBDA topic_tokens :
         IF Len(topic_tokens.val) # Len(log.topics) - 1 THEN Err("InvalidData")
         ELSE AndThen(abi_decode(FieldTypes(e, FALSE), log.data), LAMBDA data_tokens :
              AndThen(MapErr(from_tokens(AllFieldTypes(e),
                                         tokens_init(e.fields, 1, topic_tokens.val,
                                                     data_tokens.val),
                                         1, <<>>),
                             LAMBDA x : "InvalidData"), LAMBDA v :
                  Ok(v.val, data_tokens.hi))))

\* #[derive(EthEvent)]: EthLogDecode::decode_log of one event struct e.
\*   let event_signature = topics.get(0).ok_or(Error::InvalidData)?;
\*   if event_signature != &Self::signature() { return Err(Error::InvalidData) }
\*   let flat_topics = topics.iter().skip(1).flat_map(..).collect();
\*   let topic_tokens = decode(&topic_types, &flat_topics)?;
\*   if topic_tokens.len() != topics.len() - 1 { return Err(Error::InvalidData) }
\*   let data_tokens = decode(&data_types, data)?;
\*   Self::from_token(Token::Tuple(tokens)).map_err(|_| Error::InvalidData)
EthEvent_decode_log(e, log) ==
    IF Len(log.topics) = 0 THEN Err("InvalidData")
    ELSE IF log.topics[1] # e.signature THEN Err("InvalidData")
    ELSE AndThen(abi_decode(TopicTypes(e), flat(log.topics, 2)), LAMBDA topic_tokens :
         IF Len(topic_tokens.val) # Len(log.topics) - 1 THEN Err("InvalidData")
         ELSE AndThen(abi_decode(FieldTypes(e, FALSE), log.data), LAMBDA data_tokens :
              AndThen(MapErr(from_tokens(AllFieldTypes(e),
                                         tokens_init(e.fields, 1, topic_tokens.val,
                                                     data_tokens.val),
                                         1, <<>>),
                             LAMBDA x : "InvalidData"), LAMBDA v :
                  Ok(v.val, data_tokens.hi))))

-----------------------------------------------------------------------------
(* enum MailboxEvents and its EthLogDecode impl.                           *)

MailboxEvents ==
    << [variant |-> "DefaultHookSetFilter", struct |-> "DefaultHookSetFilter"],
       [variant |-> "DefaultIsmSetFilter", struct |-> "DefaultIsmSetFilter"],
       [variant |-> "DispatchFilter", struct |-> "DispatchFilter"],
       [variant |-> "DispatchIdFilter", struct |-> "DispatchIdFilter"],
       [variant |-> "InitializedFilter", struct |-> "InitializedFilter"],
       [variant |-> "OwnershipTransferredFilter", struct |-> "OwnershipTransferredFilter"],
       [variant |-> "ProcessFilter", struct |-> "ProcessFilter"],
       [variant |-> "ProcessIdFilter", struct |-> "ProcessIdFilter"],
       [variant |-> "RequiredHookSetFilter", struct |-> "RequiredHookSetFilter"] >>

\* the chain with the attempt for RequiredHookSetFilter written before the
\* one for ProcessIdFilter
MailboxEventsDecodeChain_swapped ==
    << [struct |-> "DefaultHookSetFilter", variant |-> "DefaultHookSetFilter"],
       [struct |-> "DefaultIsmSetFilter", variant |-> "DefaultIsmSetFilter"],
       [struct |-> "DispatchFilter", variant |-> "DispatchFilter"],
       [struct |-> "DispatchIdFilter", variant |-> "DispatchIdFilter"],
       [struct |-> "InitializedFilter", variant |-> "InitializedFilter"],
       [struct |-> "OwnershipTransferredFilter", variant |-> "OwnershipTransferredFilter"],
       [struct |-> "ProcessFilter", variant |-> "ProcessFilter"],
       [struct |-> "RequiredHookSetFilter", variant |-> "RequiredHookSetFilter"],
       [struct |-> "ProcessIdFilter", variant |-> "ProcessIdFilter"] >>

\* The `if let Ok(decoded) = XFilter::decode_log(log)
\* { return Ok(MailboxEvents::XFilter(decoded)) }` attempts, in the order written.
MailboxEventsDecodeChain ==
    << [struct |-> "DefaultHookSetFilter", variant |-> "DefaultHookSetFilter"],
       [struct |-> "DefaultIsmSetFilter", variant |-> "DefaultIsmSetFilter"],
       [struct |-> "DispatchFilter", variant |-> "DispatchFilter"],
       [struct |-> "DispatchIdFilter", variant |-> "DispatchIdFilter"],
       [struct |-> "InitializedFilter", variant |-> "InitializedFilter"],
       [struct |-> "OwnershipTransferredFilter", variant |-> "OwnershipTransferredFilter"],
       [struct |-> "ProcessFilter", variant |-> "ProcessFilter"],
       [struct |-> "ProcessIdFilter", variant |-> "ProcessIdFilter"],
       [struct |-> "RequiredHookSetFilter", variant |-> "RequiredHookSetFilter"] >>

\* One pass over the chain of attempts; after the last one the function
\* returns Err(Error::InvalidData).
RECURSIVE decode_log_chain(_, _, _, _)
decode_log_chain(chain, structs, log, i) ==
    IF i > Len(chain) THEN Err("InvalidData")
    ELSE IfLetOk(EthEvent_decode_log(structs[chain[i].struct], log),
                 LAMBDA decoded : Ok(Event(chain[i].variant, decoded.val), decoded.hi),
                 decode_log_chain(chain, structs, log, i + 1))

\* impl EthLogDecode for MailboxEvents
MailboxEvents_decode_log(log) ==
    decode_log_chain(MailboxEventsDecodeChain, EthEvents, log, 1)

\* The log the chain emits for an event value: topic 0 is the signature,
\* one topic per indexed field, the other fields ABI-encoded in data.
RECURSIVE indexed_words(_, _, _)
indexed_words(fields, xs, k) ==
    IF k > Len(fields) THEN <<>>
    ELSE IF fields[k].indexed
         THEN <<static_word(into_token(fields[k].type, xs[k]))>>
                  \o indexed_words(fields, xs, k + 1)
         ELSE indexed_words(fields, xs, k + 1)

RECURSIVE data_tokens_of(_, _, _)
data_tokens_of(fields, xs, k) ==
    IF k > Len(fields) THEN <<>>
    ELSE IF fields[k].indexed THEN data_tokens_of(fields, xs, k + 1)
    ELSE <<into_token(fields[k].type, xs[k])>> \o data_tokens_of(fields, xs, k + 1)

EmittedLog(ev) ==
    RawLog(<<EthEvents[ev.variant].signature>>
               \o indexed_words(EthEvents[ev.variant].fields, ev.fields, 1),
           abi_encode(data_tokens_of(EthEvents[ev.variant].fields, ev.fields, 1)))

EventValues ==
    UNION { { Event(MailboxEvents[i].variant, f) :
                f \in FieldValues([k \in 1..Len(EthEvents[MailboxEvents[i].struct].fields) |->
                                     EthEvents[MailboxEvents[i].struct].fields[k].type]) } :
            i \in 1..Len(MailboxEvents) }

-----------------------------------------------------------------------------
(* A registry in which two schemas share one selector (the overload        *)
(* example): dispatch(uint32) and dispatch(uint32,bytes32) under S.        *)

OverloadSelector == <<250, 49, 222, 1>>

OverloadCalls ==
    [ DispatchU32Call |->
          [selector |-> OverloadSelector, types |-> <<"uint32">>],
      DispatchU32B32Call |->
          [selector |-> OverloadSelector, types |-> <<"uint32", "bytes32">>] ]

OverloadVariant(struct) ==
    IF struct = "DispatchU32Call" THEN "DispatchU32" ELSE "DispatchU32B32"

\* the two registration orders
OverloadOrders ==
    { <<"DispatchU32Call", "DispatchU32B32Call">>,
      <<"DispatchU32B32Call", "DispatchU32Call">> }

OverloadChain(order) ==
    [i \in 1..Len(order) |-> [struct |-> order[i], variant |-> OverloadVariant(order[i])]]

\* registration: the schema is added after the entries already held, also
\* when one of them has the same selector
Register(reg, s) == Append(reg, s)

\* the multiplexer generated for such a registry
Overload_decode(order, bytes) ==
    decode_chain(OverloadChain(order), OverloadCalls, bytes, 1)

-----------------------------------------------------------------------------
(* Requests: encode, tamper, decode.                                       *)

Selectors == { EthCalls[MailboxCalls[i].struct].selector : i \in 1..Len(MailboxCalls) }

UnknownSelector == <<222, 173, 190, 239>>

Words ==
    { Zeros(28) \o <<0, 0, 0, 7>>, Zeros(31) \o <<32>>,
      Zeros(28) \o <<255, 255, 255, 255>>, Fill(32, 255) }

\* raw call data that no encoder produced: a selector and up to two words
WordSeqs == {<<>>} \cup Words \cup { a \o b : a \in Words, b \in Words }

RawCalls == { s \o ws : s \in Selectors \cup {UnknownSelector}, ws \in WordSeqs }

\* raw call data offered to the two-schema registry
OverloadRawCalls ==
    { s \o ws : s \in {OverloadSelector, UnknownSelector}, ws \in WordSeqs }

\* the first and the last byte of every 32-byte word after the first `skip` bytes
WordEnds(d, skip) ==
    { i \in skip + 1..Len(d) : (i - skip) % 32 \in {0, 1} }

CorruptBytes == {0, 255}

Idle ==
    /\ kind = "none"
    /\ result = NoResult

EncodeCall(c) ==
    /\ Idle
    /\ kind' = "call"
    /\ registry' = <<>>
    /\ topics' = <<>>
    /\ data' = MailboxCalls_encode(c)
    /\ origin' = c
    /\ edited' = "no"
    /\ result' = NoResult
    /\ UNCHANGED <<lazyVars, parVars>>

RawCall(d) ==
    /\ Idle
    /\ kind' = "call"
    /\ registry' = <<>>
    /\ topics' = <<>>
    /\ data' = d
    /\ origin' = NoValue
    /\ edited' = "raw"
    /\ result' = NoResult
    /\ UNCHANGED <<lazyVars, parVars>>

OverloadCall(order, d) ==
    /\ Idle
    /\ kind' = "overload"
    /\ registry' = Register(Register(<<>>, order[1]), order[2])
    /\ topics' = <<>>
    /\ data' = d
    /\ origin' = NoValue
    /\ edited' = "raw"
    /\ result' = NoResult
    /\ UNCHANGED <<lazyVars, parVars>>

EmitLog(ev) ==
    /\ Idle
    /\ kind' = "log"
    /\ registry' = <<>>
    /\ topics' = <<EthEvents[ev.variant].signature>>
                      \o indexed_words(EthEvents[ev.variant].fields, ev.fields, 1)
    /\ data' = abi_encode(data_tokens_of(EthEvents[ev.variant].fields, ev.fields, 1))
    /\ origin' = ev
    /\ edited' = "no"
    /\ result' = NoResult
    /\ UNCHANGED <<lazyVars, parVars>>

\* keep a strict prefix of the bytes
Truncate(n) ==
    /\ kind \in {"call", "log"}
    /\ edited = "no"
    /\ result = NoResult
    /\ n < Len(data)
    /\ data' = SubSeq(data, 1, n)
    /\ edited' = "truncated"
    /\ UNCHANGED <<kind, registry, topics, origin, result>>
    /\ UNCHANGED <<lazyVars, parVars>>

\* overwrite one byte
Corrupt(i, b) ==
    /\ kind \in {"call", "log"}
    /\ edited = "no"
    /\ result = NoResult
    /\ i \in WordEnds(data, IF kind = "call" THEN 4 ELSE 0) \cup (1..Len(data) \cap {1})
    /\ data[i] # b
    /\ data' = [data EXCEPT ![i] = b]
    /\ edited' = "corrupted"
    /\ UNCHANGED <<kind, registry, topics, origin, result>>
    /\ UNCHANGED <<lazyVars, parVars>>

DropTopic ==
    /\ kind = "log"
    /\ edited = "no"
    /\ result = NoResult
    /\ topics # <<>>
    /\ topics' = SubSeq(topics, 1, Len(topics) - 1)
    /\ edited' = "corrupted"
    /\ UNCHANGED <<kind, registry, data, origin, result>>
    /\ UNCHANGED <<lazyVars, parVars>>

AddTopic(w) ==
    /\ kind = "log"
    /\ edited = "no"
    /\ result = NoResult
    /\ topics' = Append(topics, w)
    /\ edited' = "corrupted"
    /\ UNCHANGED <<kind, registry, data, origin, result>>
    /\ UNCHANGED <<lazyVars, parVars>>

SetTopic(i, w) ==
    /\ kind = "log"
    /\ edited = "no"
    /\ result = NoResult
    /\ i \in 1..Len(topics)
    /\ topics[i] # w
    /\ topics' = [topics EXCEPT ![i] = w]
    /\ edited' = "corrupted"
    /\ UNCHANGED <<kind, registry, data, origin, result>>
    /\ UNCHANGED <<lazyVars, parVars>>

DecodeCall ==
    /\ kind = "call"
    /\ result = NoResult
    /\ result' = MailboxCalls_decode(data)
    /\ UNCHANGED <<kind, registry, topics, data, origin, edited>>
    /\ UNCHANGED <<lazyVars, parVars>>

DecodeOverload ==
    /\ kind = "overload"
    /\ result = NoResult
    /\ result' = Overload_decode(registry, data)
    /\ UNCHANGED <<kind, registry, topics, data, origin, edited>>
    /\ UNCHANGED <<lazyVars, parVars>>

DecodeLog ==
    /\ kind = "log"
    /\ result = NoResult
    /\ result' = MailboxEvents_decode_log(RawLog(topics, data))
    /\ UNCHANGED <<kind, registry, topics, data, origin, edited>>
    /\ UNCHANGED <<lazyVars, parVars>>

\* return data as a node sends it: one word, or one byte less
ReturnWords ==
    { Zeros(31) \o <<2>>, Zeros(31) \o <<255>>,
      Zeros(28) \o Fill(4, 255), Zeros(27) \o <<1, 0, 0, 0, 0>>,
      Zeros(26) \o Fill(6, 255), Zeros(25) \o <<1>> \o Zeros(6),
      Zeros(23) \o <<1>> \o Zeros(8), Fill(32, 255), Zeros(31) }

\* a return struct with its field is encoded (AbiEncode::encode)
EncodeReturn(r, fields) ==
    /\ Idle
    /\ kind' = "return"
    /\ registry' = <<>>
    /\ topics' = <<>>
    /\ data' = EthAbiCodec_encode(EthReturns[r], fields)
    /\ origin' = [variant |-> r, fields |-> fields]
    /\ edited' = "no"
    /\ result' = NoResult
    /\ UNCHANGED <<lazyVars, parVars>>

RawReturn(r, d) ==
    /\ Idle
    /\ kind' = "return"
    /\ registry' = <<>>
    /\ topics' = <<>>
    /\ data' = d
    /\ origin' = [variant |-> r, fields |-> <<>>]
    /\ edited' = "raw"
    /\ result' = NoResult
    /\ UNCHANGED <<lazyVars, parVars>>

DecodeReturn ==
    /\ kind = "return"
    /\ result = NoResult
    /\ result' = EthAbiCodec_decode(EthReturns[origin.variant], data)
    /\ UNCHANGED <<kind, registry, topics, data, origin, edited>>
    /\ UNCHANGED <<lazyVars, parVars>>

\* the caller drops the request and its result
Finish ==
    /\ result # NoResult
    /\ kind' = "none"
    /\ registry' = <<>>
    /\ topics' = <<>>
    /\ data' = <<>>
    /\ origin' = NoValue
    /\ edited' = "no"
    /\ result' = NoResult
    /\ UNCHANGED <<lazyVars, parVars>>

TopicWords ==
    { EthEvents[MailboxEvents[i].struct].signature : i \in 1..Len(MailboxEvents) }
        \cup { Fill(32, 255) }

CodecInit ==
    /\ kind = "none"
    /\ registry = <<>>
    /\ topics = <<>>
    /\ data = <<>>
    /\ origin = NoValue
    /\ edited = "no"
    /\ result = NoResult

-----------------------------------------------------------------------------
(* MAILBOX_ABI: Lazy<Abi>, forced by Mailbox::new.                         *)

\* the entries of the JSON text __ABI, in the order written
ABI_entries ==
    << [type |-> "constructor", signature |-> "constructor(uint32)"],
       [type |-> "event", signature |-> "DefaultHookSet(address)"],
       [type |-> "event", signature |-> "DefaultIsmSet(address)"],
       [type |-> "event", signature |-> "Dispatch(address,uint32,bytes32,bytes)"],
       [type |-> "event", signature |-> "DispatchId(bytes32)"],
       [type |-> "event", signature |-> "Initialized(uint8)"],
       [type |-> "event", signature |-> "OwnershipTransferred(address,address)"],
       [type |-> "event", signature |-> "Process(uint32,bytes32,address)"],
       [type |-> "event", signature |-> "ProcessId(bytes32)"],
       [type |-> "event", signature |-> "RequiredHookSet(address)"],
       [type |-> "function", signature |-> "VERSION()"],
       [type |-> "function", signature |-> "defaultHook()"],
       [type |-> "function", signature |-> "defaultIsm()"],
       [type |-> "function", signature |-> "delivered(bytes32)"],
       [type |-> "function", signature |-> "deployedBlock()"],
       [type |-> "function", signature |-> "dispatch(uint32,bytes32,bytes,bytes,address)"],
       [type |-> "function", signature |-> "dispatch(uint32,bytes32,bytes,bytes)"],
       [type |-> "function", signature |-> "dispatch(uint32,bytes32,bytes)"],
       [type |-> "function", signature |-> "initialize(address,address,address,address)"],
       [type |-> "function", signature |-> "latestDispatchedId()"],
       [type |-> "function", signature |-> "localDomain()"],
       [type |-> "function", signature |-> "nonce()"],
       [type |-> "function", signature |-> "owner()"],
       [type |-> "function", signature |-> "process(bytes,bytes)"],
       [type |-> "function", signature |-> "processedAt(bytes32)"],
       [type |-> "function", signature |-> "processor(bytes32)"],
       [type |-> "function", signature |-> "quoteDispatch(uint32,bytes32,bytes,bytes,address)"],
       [type |-> "function", signature |-> "quoteDispatch(uint32,bytes32,bytes)"],
       [type |-> "function", signature |-> "quoteDispatch(uint32,bytes32,bytes,bytes)"],
       [type |-> "function", signature |-> "recipientIsm(address)"],
       [type |-> "function", signature |-> "renounceOwnership()"],
       [type |-> "function", signature |-> "requiredHook()"],
       [type |-> "function", signature |-> "setDefaultHook(address)"],
       [type |-> "function", signature |-> "setDefaultIsm(address)"],
       [type |-> "function", signature |-> "setRequiredHook(address)"],
       [type |-> "function", signature |-> "transferOwnership(address)"] >>

Threads == 1..NThreads

NoAbi == [constructor |-> {}, functions |-> {}, events |-> {}]

Entries(type) ==
    { ABI_entries[i].signature : i \in { j \in 1..Len(ABI_entries) : ABI_entries[j].type = type } }

\* serde_json::from_str(__ABI): the parsed Abi
ParsedAbi ==
    [constructor |-> Entries("constructor"),
     functions |-> Entries("function"),
     events |-> Entries("event")]

\* what the deserializer holds after reading only the entries before the functions
HalfParsedAbi ==
    [constructor |-> Entries("constructor"),
     functions |-> {},
     events |-> Entries("event")]

LazyInit ==
    /\ once = "incomplete"
    /\ cell = NoAbi
    /\ pc = [t \in Threads |-> "idle"]
    /\ building = [t \in Threads |-> NoAbi]
    /\ seen = [t \in Threads |-> <<>>]
    /\ held = [t \in Threads |-> {}]
    /\ initRuns = 0

\* Mailbox::new over a plain static: every caller parses __ABI itself
Mailbox_new_unsynchronised(t) ==
    /\ pc[t] = "idle"
    /\ Len(seen[t]) < MaxAccess
    /\ initRuns' = initRuns + 1
    /\ building' = [building EXCEPT ![t] = HalfParsedAbi]
    /\ pc' = [pc EXCEPT ![t] = "init"]
    /\ UNCHANGED <<once, cell, seen, held>>
    /\ UNCHANGED <<codecVars, parVars>>

\* Mailbox::new: MAILBOX_ABI.clone() dereferences the Lazy
Mailbox_new(t) ==
    /\ pc[t] = "idle"
    /\ Len(seen[t]) < MaxAccess
    /\ pc' = [pc EXCEPT ![t] = "force"]
    /\ UNCHANGED <<once, cell, building, seen, initRuns, held>>
    /\ UNCHANGED <<codecVars, parVars>>

\* Lazy::force, cell already complete: take the value
ForceComplete(t) ==
    /\ pc[t] = "force"
    /\ once = "complete"
    /\ pc' = [pc EXCEPT ![t] = "clone"]
    /\ UNCHANGED <<once, cell, building, seen, initRuns, held>>
    /\ UNCHANGED <<codecVars, parVars>>

\* Lazy::force, cell incomplete: this thread wins the right to initialize
ForceStart(t) ==
    /\ pc[t] = "force"
    /\ once = "incomplete"
    /\ once' = "running"
    /\ initRuns' = initRuns + 1
    /\ building' = [building EXCEPT ![t] = HalfParsedAbi]
    /\ pc' = [pc EXCEPT ![t] = "init"]
    /\ UNCHANGED <<cell, seen, held>>
    /\ UNCHANGED <<codecVars, parVars>>

\* Lazy::force, another thread is initializing: block until it is done
ForceWait(t) ==
    /\ pc[t] = "force"
    /\ once = "running"
    /\ pc' = [pc EXCEPT ![t] = "wait"]
    /\ UNCHANGED <<once, cell, building, seen, initRuns, held>>
    /\ UNCHANGED <<codecVars, parVars>>

\* the closure || from_str(__ABI).expect("invalid abi") returns; the value
\* is stored and the cell marked complete
InitDone(t) ==
    /\ pc[t] = "init"
    /\ cell' = ParsedAbi
    /\ building' = [building EXCEPT ![t] = NoAbi]
    /\ once' = "complete"
    /\ pc' = [pc EXCEPT ![t] = "clone"]
    /\ UNCHANGED <<seen, initRuns, held>>
    /\ UNCHANGED <<codecVars, parVars>>

Wake(t) ==
    /\ pc[t] = "wait"
    /\ once = "complete"
    /\ pc' = [pc EXCEPT ![t] = "clone"]
    /\ UNCHANGED <<once, cell, building, seen, initRuns, held>>
    /\ UNCHANGED <<codecVars, parVars>>

\* the registry moved out of the static (std::mem::take) instead of cloned
CloneAbi_take(t) ==
    /\ pc[t] = "clone"
    /\ seen' = [seen EXCEPT ![t] = Append(@, cell)]
    /\ held' = [held EXCEPT ![t] = @ \cup {cell}]
    /\ cell' = NoAbi
    /\ pc' = [pc EXCEPT ![t] = "idle"]
    /\ UNCHANGED <<once, building, initRuns>>
    /\ UNCHANGED <<codecVars, parVars>>

\* .clone() and Contract::new(..).into(): the thread's Mailbox wraps a Contract
\* that holds its own copy of the registry
CloneAbi(t) ==
    /\ pc[t] = "clone"
    /\ seen' = [seen EXCEPT ![t] = Append(@, cell)]
    /\ held' = [held EXCEPT ![t] = @ \cup {cell}]
    /\ pc' = [pc EXCEPT ![t] = "idle"]
    /\ UNCHANGED <<once, cell, building, initRuns>>
    /\ UNCHANGED <<codecVars, parVars>>

\* the Abi of a Contract built outside this binding: Abi::default()
ContractAbis == { NoAbi }

\* impl From<Contract<M>> for Mailbox<M>: Self(contract) wraps any Contract,
\* with the Abi that Contract was made with; MAILBOX_ABI is not touched.
\* The thread keeps the Mailboxes it already holds.
Mailbox_from(t, abi) ==
    /\ pc[t] = "idle"
    /\ held' = [held EXCEPT ![t] = @ \cup {abi}]
    /\ UNCHANGED <<once, cell, pc, building, seen, initRuns>>
    /\ UNCHANGED <<codecVars, parVars>>

-----------------------------------------------------------------------------
(* The wrapper methods of Mailbox<M>: each calls                           *)
(* self.0.method_hash(selector, args).expect("method not found ...").     *)

\* keccak256 of each function signature of __ABI, first four bytes
short_signatures ==
    << <<"VERSION()", <<255, 161, 173, 116>>>>,
       <<"defaultHook()", <<61, 18, 80, 183>>>>,
       <<"defaultIsm()", <<110, 95, 81, 110>>>>,
       <<"delivered(bytes32)", <<228, 149, 241, 212>>>>,
       <<"deployedBlock()", <<130, 234, 123, 254>>>>,
       <<"dispatch(uint32,bytes32,bytes,bytes,address)", <<16, 184, 61, 192>>>>,
       <<"dispatch(uint32,bytes32,bytes,bytes)", <<72, 174, 232, 212>>>>,
       <<"dispatch(uint32,bytes32,bytes)", <<250, 49, 222, 1>>>>,
       <<"initialize(address,address,address,address)", <<248, 200, 118, 94>>>>,
       <<"latestDispatchedId()", <<19, 79, 187, 79>>>>,
       <<"localDomain()", <<141, 54, 56, 244>>>>,
       <<"nonce()", <<175, 254, 208, 224>>>>,
       <<"owner()", <<141, 165, 203, 91>>>>,
       <<"process(bytes,bytes)", <<124, 57, 209, 48>>>>,
       <<"processedAt(bytes32)", <<7, 162, 253, 161>>>>,
       <<"processor(bytes32)", <<93, 31, 229, 169>>>>,
       <<"quoteDispatch(uint32,bytes32,bytes,bytes,address)", <<129, 210, 234, 149>>>>,
       <<"quoteDispatch(uint32,bytes32,bytes)", <<156, 66, 189, 24>>>>,
       <<"quoteDispatch(uint32,bytes32,bytes,bytes)", <<247, 204, 211, 33>>>>,
       <<"recipientIsm(address)", <<231, 15, 72, 172>>>>,
       <<"renounceOwnership()", <<113, 80, 24, 166>>>>,
       <<"requiredHook()", <<214, 208, 138, 9>>>>,
       <<"setDefaultHook(address)", <<153, 176, 72, 9>>>>,
       <<"setDefaultIsm(address)", <<247, 148, 104, 122>>>>,
       <<"setRequiredHook(address)", <<20, 38, 183, 244>>>>,
       <<"transferOwnership(address)", <<242, 253, 227, 139>>>> >>

\* the function entries of __ABI: signature, input types, output types
ABI_functions ==
    << [signature |-> "VERSION()",
        inputs |-> <<>>,
        outputs |-> <<"uint8">>],
       [signature |-> "defaultHook()",
        inputs |-> <<>>,
        outputs |-> <<"address">>],
       [signature |-> "defaultIsm()",
        inputs |-> <<>>,
        outputs |-> <<"address">>],
       [signature |-> "delivered(bytes32)",
        inputs |-> <<"bytes32">>,
        outputs |-> <<"bool">>],
       [signature |-> "deployedBlock()",
        inputs |-> <<>>,
        outputs |-> <<"uint256">>],
       [signature |-> "dispatch(uint32,bytes32,bytes,bytes,address)",
        inputs |-> <<"uint32", "bytes32", "bytes", "bytes", "address">>,
        outputs |-> <<"bytes32">>],
       [signature |-> "dispatch(uint32,bytes32,bytes,bytes)",
        inputs |-> <<"uint32", "bytes32", "bytes", "bytes">>,
        outputs |-> <<"bytes32">>],
       [signature |-> "dispatch(uint32,bytes32,bytes)",
        inputs |-> <<"uint32", "bytes32", "bytes">>,
        outputs |-> <<"bytes32">>],
       [signature |-> "initialize(address,address,address,address)",
        inputs |-> <<"address", "address", "address", "address">>,
        outputs |-> <<>>],
       [signature |-> "latestDispatchedId()",
        inputs |-> <<>>,
        outputs |-> <<"bytes32">>],
       [signature |-> "localDomain()",
        inputs |-> <<>>,
        outputs |-> <<"uint32">>],
       [signature |-> "nonce()",
        inputs |-> <<>>,
        outputs |-> <<"uint32">>],
       [signature |-> "owner()",
        inputs |-> <<>>,
        outputs |-> <<"address">>],
       [signature |-> "process(bytes,bytes)",
        inputs |-> <<"bytes", "bytes">>,
        outputs |-> <<>>],
       [signature |-> "processedAt(bytes32)",
        inputs |-> <<"bytes32">>,
        outputs |-> <<"uint48">>],
       [signature |-> "processor(bytes32)",
        inputs |-> <<"bytes32">>,
        outputs |-> <<"address">>],
       [signature |-> "quoteDispatch(uint32,bytes32,bytes,bytes,address)",
        inputs |-> <<"uint32", "bytes32", "bytes", "bytes", "address">>,
        outputs |-> <<"uint256">>],
       [signature |-> "quoteDispatch(uint32,bytes32,bytes)",
        inputs |-> <<"uint32", "bytes32", "bytes">>,
        outputs |-> <<"uint256">>],
       [signature |-> "quoteDispatch(uint32,bytes32,bytes,bytes)",
        inputs |-> <<"uint32", "bytes32", "bytes", "bytes">>,
        outputs |-> <<"uint256">>],
       [signature |-> "recipientIsm(address)",
        inputs |-> <<"address">>,
        outputs |-> <<"address">>],
       [signature |-> "renounceOwnership()",
        inputs |-> <<>>,
        outputs |-> <<>>],
       [signature |-> "requiredHook()",
        inputs |-> <<>>,
        outputs |-> <<"address">>],
       [signature |-> "setDefaultHook(address)",
        inputs |-> <<"address">>,
        outputs |-> <<>>],
       [signature |-> "setDefaultIsm(address)",
        inputs |-> <<"address">>,
        outputs |-> <<>>],
       [signature |-> "setRequiredHook(address)",
        inputs |-> <<"address">>,
        outputs |-> <<>>],
       [signature |-> "transferOwnership(address)",
        inputs |-> <<"address">>,
        outputs |-> <<>>] >>

\* the declared output type of a function of the ABI
abi_output(signature) ==
    LET function == CHOOSE f \in { ABI_functions[k] : k \in 1..Len(ABI_functions) } :
                        f.signature = signature
    IN  function.outputs[1]

\* The wrappers in the order written: the selector literal each passes to
\* method_hash, the Rust types of the arguments it passes, and the type R of
\* the ContractCall<M, R> it returns.
Wrappers ==
    << [name |-> "version",
        selector |-> <<255, 161, 173, 116>>,
        args |-> <<>>,
        returns |-> "u8"],
       [name |-> "default_hook",
        selector |-> <<61, 18, 80, 183>>,
        args |-> <<>>,
        returns |-> "Address"],
       [name |-> "default_ism",
        selector |-> <<110, 95, 81, 110>>,
        args |-> <<>>,
        returns |-> "Address"],
       [name |-> "delivered",
        selector |-> <<228, 149, 241, 212>>,
        args |-> <<"[u8; 32]">>,
        returns |-> "bool"],
       [name |-> "deployed_block",
        selector |-> <<130, 234, 123, 254>>,
        args |-> <<>>,
        returns |-> "U256"],
       [name |-> "dispatch_2",
        selector |-> <<16, 184, 61, 192>>,
        args |-> <<"u32", "[u8; 32]", "Bytes", "Bytes", "Address">>,
        returns |-> "[u8; 32]"],
       [name |-> "dispatch_1",
        selector |-> <<72, 174, 232, 212>>,
        args |-> <<"u32", "[u8; 32]", "Bytes", "Bytes">>,
        returns |-> "[u8; 32]"],
       [name |-> "dispatch_0",
        selector |-> <<250, 49, 222, 1>>,
        args |-> <<"u32", "[u8; 32]", "Bytes">>,
        returns |-> "[u8; 32]"],
       [name |-> "initialize",
        selector |-> <<248, 200, 118, 94>>,
        args |-> <<"Address", "Address", "Address", "Address">>,
        returns |-> "()"],
       [name |-> "latest_dispatched_id",
        selector |-> <<19, 79, 187, 79>>,
        args |-> <<>>,
        returns |-> "[u8; 32]"],
       [name |-> "local_domain",
        selector |-> <<141, 54, 56, 244>>,
        args |-> <<>>,
        returns |-> "u32"],
       [name |-> "nonce",
        selector |-> <<175, 254, 208, 224>>,
        args |-> <<>>,
        returns |-> "u32"],
       [name |-> "owner",
        selector |-> <<141, 165, 203, 91>>,
        args |-> <<>>,
        returns |-> "Address"],
       [name |-> "process",
        selector |-> <<124, 57, 209, 48>>,
        args |-> <<"Bytes", "Bytes">>,
        returns |-> "()"],
       [name |-> "processed_at",
        selector |-> <<7, 162, 253, 161>>,
        args |-> <<"[u8; 32]">>,
        returns |-> "u64"],
       [name |-> "processor",
        selector |-> <<93, 31, 229, 169>>,
        args |-> <<"[u8; 32]">>,
        returns |-> "Address"],
       [name |-> "quote_dispatch_with_destination_domain_and_recipient_address_and_metadata",
        selector |-> <<129, 210, 234, 149>>,
        args |-> <<"u32", "[u8; 32]", "Bytes", "Bytes", "Address">>,
        returns |-> "U256"],
       [name |-> "quote_dispatch",
        selector |-> <<156, 66, 189, 24>>,
        args |-> <<"u32", "[u8; 32]", "Bytes">>,
        returns |-> "U256"],
       [name |-> "quote_dispatch_with_destination_domain_and_recipient_address_and_default_hook_metadata",
        selector |-> <<247, 204, 211, 33>>,
        args |-> <<"u32", "[u8; 32]", "Bytes", "Bytes">>,
        returns |-> "U256"],
       [name |-> "recipient_ism",
        selector |-> <<231, 15, 72, 172>>,
        args |-> <<"Address">>,
        returns |-> "Address"],
       [name |-> "renounce_ownership",
        selector |-> <<113, 80, 24, 166>>,
        args |-> <<>>,
        returns |-> "()"],
       [name |-> "required_hook",
        selector |-> <<214, 208, 138, 9>>,
        args |-> <<>>,
        returns |-> "Address"],
       [name |-> "set_default_hook",
        selector |-> <<153, 176, 72, 9>>,
        args |-> <<"Address">>,
        returns |-> "()"],
       [name |-> "set_default_ism",
        selector |-> <<247, 148, 104, 122>>,
        args |-> <<"Address">>,
        returns |-> "()"],
       [name |-> "set_required_hook",
        selector |-> <<20, 38, 183, 244>>,
        args |-> <<"Address">>,
        returns |-> "()"],
       [name |-> "transfer_ownership",
        selector |-> <<242, 253, 227, 139>>,
        args |-> <<"Address">>,
        returns |-> "()"] >>

\* BaseContract::methods: the selectors of the functions of the contract's Abi
methods(abi) ==
    { short_signatures[i][2] :
          i \in { j \in 1..Len(short_signatures) : short_signatures[j][1] \in abi.functions } }

\* Tokenizable::into_token of an argument, by its Rust type: the kind of the
\* token, and for FixedBytes the number of bytes it holds
arg_token(rust) ==
    CASE rust = "u32" -> [t |-> "Uint", n |-> 0]
      [] rust = "[u8; 32]" -> [t |-> "FixedBytes", n |-> 32]
      [] rust = "Bytes" -> [t |-> "Bytes", n |-> 0]
      [] rust = "Address" -> [t |-> "Address", n |-> 0]

\* ethabi Token::type_check against a parameter type of the function
type_check(tok, param) ==
    CASE tok.t = "Uint" -> param \in {"uint8", "uint32", "uint48", "uint256"}
      [] tok.t = "FixedBytes" -> param = "bytes32" /\ 32 >= tok.n
      [] tok.t = "Bytes" -> param = "bytes"
      [] tok.t = "Address" -> param = "address"

\* Contract::method_hash: the function is looked up by selector in the
\* contract's own Abi, an unknown selector is Err(InvalidName); the arguments
\* are then encoded by Function::encode_input, which is Err(InvalidData)
\* unless the tokens check against the function's input types.
method_hash(abi, selector, args) ==
    IF selector \notin methods(abi) THEN Err("InvalidName")
    ELSE LET i == CHOOSE j \in 1..Len(short_signatures) :
                      /\ short_signatures[j][2] = selector
                      /\ short_signatures[j][1] \in abi.functions
             function == ABI_functions[CHOOSE k \in 1..Len(ABI_functions) :
                                           ABI_functions[k].signature = short_signatures[i][1]]
         IN  IF /\ Len(args) = Len(function.inputs)
                /\ \A k \in 1..Len(args) : type_check(arg_token(args[k]), function.inputs[k])
             THEN Ok(selector, 0)
             ELSE Err("InvalidData")

\* Function::encode_input: Err(InvalidData) unless the tokens check against
\* the input types, else the selector followed by the encoded tokens
encode_input(selector, inputs, tokens) ==
    IF /\ Len(tokens) = Len(inputs)
       /\ \A k \in 1..Len(tokens) :
              type_check([t |-> tokens[k].t, n |-> Len(tokens[k].v)], inputs[k])
    THEN Ok(selector \o abi_encode(tokens), 0)
    ELSE Err("InvalidData")

\* [u8; N] values of fewer than 32 bytes
ShortIds == { Fill(4, 171), Fill(31, 255), <<1>> }

\* Contract::method_hash called on a Mailbox through its Deref to Contract
\* (mailbox.rs 31-36) with the selector of `delivered` and a [u8; N] value
\* x, whose token is FixedBytes of N bytes: encode_input accepts up to 32
\* bytes for bytes32 and its output is the data of the call; on Err nothing
\* is built.
DerefMethodHash(x) ==
    LET function == ABI_functions[CHOOSE k \in 1..Len(ABI_functions) :
                                      ABI_functions[k].signature = "delivered(bytes32)"]
        input == encode_input(EthCalls["DeliveredCall"].selector, function.inputs,
                              <<Token("FixedBytes", x)>>)
    IN  /\ Idle
        /\ input.kind = "Ok"
        /\ kind' = "call"
        /\ registry' = <<>>
        /\ topics' = <<>>
        /\ data' = input.val
        /\ origin' = Call("Delivered", <<x>>)
        /\ edited' = "short"
        /\ result' = NoResult
        /\ UNCHANGED <<lazyVars, parVars>>

\* the outcome of each wrapper's lookup in a Contract that holds MAILBOX_ABI
resolved ==
    [w \in 1..Len(Wrappers) |->
        method_hash(ParsedAbi, Wrappers[w].selector, Wrappers[w].args)]

\* a wrapper that also records the method in the shared registry
Wrapper_writes_registry(t, w, abi) ==
    /\ pc[t] = "idle"
    /\ abi \in held[t]
    /\ cell' = [cell EXCEPT !.functions = @ \cup {Wrappers[w].name}]
    /\ pc' = [pc EXCEPT ![t] = "called"]
    /\ UNCHANGED <<once, building, seen, initRuns, held>>
    /\ UNCHANGED <<codecVars, parVars>>

\* A thread calls wrapper w on one of the Mailboxes it holds (&self), the one
\* whose Contract has the Abi abi: method_hash on the contract's own Abi, then
\* .expect(..), which panics on Err.
Wrapper(t, w, abi) ==
    /\ pc[t] = "idle"
    /\ abi \in held[t]
    /\ pc' = [pc EXCEPT ![t] =
                 IF method_hash(abi, Wrappers[w].selector,
                                Wrappers[w].args).kind = "Ok"
                 THEN "called" ELSE "panicked"]
    /\ UNCHANGED <<once, cell, building, seen, initRuns, held>>
    /\ UNCHANGED <<codecVars, parVars>>

\* the ContractCall builder is returned to the caller
WrapperReturn(t) ==
    /\ pc[t] = "called"
    /\ pc' = [pc EXCEPT ![t] = "idle"]
    /\ UNCHANGED <<once, cell, building, seen, initRuns, held>>
    /\ UNCHANGED <<codecVars, parVars>>

-----------------------------------------------------------------------------
(* Callers running encode, decode and decode_log side by side.  Each       *)
(* caller owns its input (data.as_ref(), &RawLog, self) and its place in   *)
(* the chain of attempts; one step of a decode is one attempt.             *)

Callers == 1..NCallers

NoLog == RawLog(<<>>, <<>>)

Job(op, call, bytes, log) == [op |-> op, call |-> call, bytes |-> bytes, log |-> log]

NoJob == Job("none", NoValue, <<>>, NoLog)

ParCall == Call("Dispatch0", BaseFields(EthCalls["Dispatch0Call"].types))

ParEvent ==
    Event("DispatchIdFilter", BaseFields(AllFieldTypes(EthEvents["DispatchIdFilter"])))

\* a valid encoding, and the same bytes cut off inside the length word
ValidCallData == MailboxCalls_encode(ParCall)

MalformedCallData == SubSeq(ValidCallData, 1, Len(ValidCallData) - 33)

EncodeJobs == { Job("encode", ParCall, <<>>, NoLog) }

DecodeJobs ==
    { Job("decode", NoValue, b, NoLog) : b \in {ValidCallData, MalformedCallData} }

DecodeLogJobs ==
    { Job("decode_log", NoValue, <<>>, l) : l \in {EmittedLog(ParEvent), NoLog} }

CallersInit ==
    /\ job = [c \in Callers |-> NoJob]
    /\ at = [c \in Callers |-> 0]
    /\ out = [c \in Callers |-> NoResult]
    /\ fails = 0

\* the caller calls the operation on its own input
Begin(c, j) ==
    /\ job[c] = NoJob
    /\ job' = [job EXCEPT ![c] = j]
    /\ at' = [at EXCEPT ![c] = 1]
    /\ UNCHANGED <<out, fails>>
    /\ UNCHANGED <<codecVars, lazyVars>>

\* the operation returns r to caller c
Returns(c, r) ==
    /\ out' = [out EXCEPT ![c] = r]
    /\ at' = [at EXCEPT ![c] = 0]
    /\ fails' = IF r.kind = "Err" /\ fails < MaxFails THEN fails + 1 ELSE fails
    /\ UNCHANGED job

\* impl AbiEncode for MailboxCalls, run by caller c
EncodeStep(c) ==
    /\ job[c].op = "encode"
    /\ out[c] = NoResult
    /\ Returns(c, Ok(MailboxCalls_encode(job[c].call), 0))
    /\ UNCHANGED <<codecVars, lazyVars>>

\* an attempt that reads its bytes from a buffer all callers share (caller 1's)
AttemptCall_shared_buffer(c) ==
    /\ job[c].op = "decode"
    /\ out[c] = NoResult
    /\ IF at[c] > Len(MailboxCallsDecodeChain)
       THEN Returns(c, Err(DecodingError("InvalidData")))
       ELSE LET attempt == MailboxCallsDecodeChain[at[c]]
                decoded == EthCall_decode(EthCalls[attempt.struct], job[1].bytes)
            IN  IF decoded.kind = "Panic" THEN Returns(c, Panic)
                ELSE IF decoded.kind = "Ok"
                THEN Returns(c, Ok(Call(attempt.variant, decoded.val), decoded.hi))
                ELSE /\ at' = [at EXCEPT ![c] = @ + 1]
                     /\ UNCHANGED <<job, out, fails>>
    /\ UNCHANGED <<codecVars, lazyVars>>

\* One attempt of MailboxCalls::decode by caller c:
\* `if let Ok(decoded) = <XCall as AbiDecode>::decode(data) { return Ok(..) }`,
\* and after the last attempt `Err(Error::InvalidData.into())`.
AttemptCall(c) ==
    /\ job[c].op = "decode"
    /\ out[c] = NoResult
    /\ IF at[c] > Len(MailboxCallsDecodeChain)
       THEN Returns(c, Err(DecodingError("InvalidData")))
       ELSE LET attempt == MailboxCallsDecodeChain[at[c]]
                decoded == EthCall_decode(EthCalls[attempt.struct], job[c].bytes)
            IN  IF decoded.kind = "Panic" THEN Returns(c, Panic)
                ELSE IF decoded.kind = "Ok"
                THEN Returns(c, Ok(Call(attempt.variant, decoded.val), decoded.hi))
                ELSE /\ at' = [at EXCEPT ![c] = @ + 1]
                     /\ UNCHANGED <<job, out, fails>>
    /\ UNCHANGED <<codecVars, lazyVars>>

\* a decode_log whose failure poisons MAILBOX_ABI on its way out
AttemptLog_poisons(c) ==
    /\ job[c].op = "decode_log"
    /\ out[c] = NoResult
    /\ IF at[c] > Len(MailboxEventsDecodeChain)
       THEN /\ Returns(c, Err("InvalidData"))
            /\ once' = "poisoned"
            /\ cell' = NoAbi
            /\ UNCHANGED <<pc, building, seen, initRuns, held>>
       ELSE /\ LET attempt == MailboxEventsDecodeChain[at[c]]
                   decoded == EthEvent_decode_log(EthEvents[attempt.struct], job[c].log)
               IN  IF decoded.kind = "Panic" THEN Returns(c, Panic)
                   ELSE IF decoded.kind = "Ok"
                   THEN Returns(c, Ok(Event(attempt.variant, decoded.val), decoded.hi))
                   ELSE /\ at' = [at EXCEPT ![c] = @ + 1]
                        /\ UNCHANGED <<job, out, fails>>
            /\ UNCHANGED lazyVars
    /\ UNCHANGED codecVars

\* One attempt of MailboxEvents::decode_log by caller c:
\* `if let Ok(decoded) = XFilter::decode_log(log) { return Ok(..) }`,
\* and after the last attempt `Err(Error::InvalidData)`.
AttemptLog(c) ==
    /\ job[c].op = "decode_log"
    /\ out[c] = NoResult
    /\ IF at[c] > Len(MailboxEventsDecodeChain)
       THEN Returns(c, Err("InvalidData"))
       ELSE LET attempt == MailboxEventsDecodeChain[at[c]]
                decoded == EthEvent_decode_log(EthEvents[attempt.struct], job[c].log)
            IN  IF decoded.kind = "Panic" THEN Returns(c, Panic)
                ELSE IF decoded.kind = "Ok"
                THEN Returns(c, Ok(Event(attempt.variant, decoded.val), decoded.hi))
                ELSE /\ at' = [at EXCEPT ![c] = @ + 1]
                     /\ UNCHANGED <<job, out, fails>>
    /\ UNCHANGED <<codecVars, lazyVars>>

\* the caller takes the result and drops the input
Leave(c) ==
    /\ out[c] # NoResult
    /\ job' = [job EXCEPT ![c] = NoJob]
    /\ out' = [out EXCEPT ![c] = NoResult]
    /\ UNCHANGED <<at, fails>>
    /\ UNCHANGED <<codecVars, lazyVars>>

\* MAILBOX_ABI after some Mailbox::new has completed
LazyReady ==
    /\ once = "complete"
    /\ cell = ParsedAbi
    /\ pc = [t \in Threads |-> "idle"]
    /\ building = [t \in Threads |-> NoAbi]
    /\ seen = [t \in Threads |-> IF t = 1 THEN <<ParsedAbi>> ELSE <<>>]
    /\ held = [t \in Threads |-> IF t = 1 THEN {ParsedAbi} ELSE {}]
    /\ initRuns = 1

-----------------------------------------------------------------------------
(* Specifications.                                                         *)

Init == CodecInit /\ LazyInit /\ CallersInit

Next ==
    \/ \E c \in CallValues : EncodeCall(c)
    \/ \E d \in RawCalls : RawCall(d)
    \/ \E o \in OverloadOrders, d \in OverloadRawCalls : OverloadCall(o, d)
    \/ \E ev \in EventValues : EmitLog(ev)
    \/ \E n \in 0..Len(data) : Truncate(n)
    \/ \E i \in 1..Len(data), b \in CorruptBytes : Corrupt(i, b)
    \/ DropTopic
    \/ \E w \in TopicWords : AddTopic(w)
    \/ \E i \in 1..Len(topics), w \in TopicWords : SetTopic(i, w)
    \/ DecodeCall
    \/ DecodeOverload
    \/ DecodeLog
    \/ \E x \in B32s \cup ShortIds : DerefMethodHash(x)
    \/ \E r \in DOMAIN EthReturns :
           \E f \in FieldValues(EthReturns[r].types) : EncodeReturn(r, f)
    \/ \E r \in DOMAIN EthReturns, d \in ReturnWords : RawReturn(r, d)
    \/ DecodeReturn
    \/ Finish

Spec == Init /\ [][Next]_vars

LazyNext ==
    \/ \E t \in Threads : Mailbox_new(t)
    \/ \E t \in Threads : ForceComplete(t)
    \/ \E t \in Threads : ForceStart(t)
    \/ \E t \in Threads : ForceWait(t)
    \/ \E t \in Threads : InitDone(t)
    \/ \E t \in Threads : Wake(t)
    \/ \E t \in Threads : CloneAbi(t)

SpecLazy == Init /\ [][LazyNext]_vars

\* The whole layer in use: threads create contracts and call wrappers while
\* calls and logs are encoded and decoded.
SysThreads == 1..NSysThreads

SysCalls ==
    { Call("Dispatch0", BaseFields(EthCalls["Dispatch0Call"].types)) }

\* version, dispatch (three arguments), local_domain, transfer_ownership
SysWrappers == {1, 8, 11, 26}

SysLogs == { Event("DispatchIdFilter", BaseFields(AllFieldTypes(EthEvents["DispatchIdFilter"]))) }

SysNext ==
    \/ \E t \in SysThreads : Mailbox_new(t)
    \/ \E t \in SysThreads : ForceComplete(t)
    \/ \E t \in SysThreads : ForceStart(t)
    \/ \E t \in SysThreads : ForceWait(t)
    \/ \E t \in SysThreads : InitDone(t)
    \/ \E t \in SysThreads : Wake(t)
    \/ \E t \in SysThreads : CloneAbi(t)
    \/ \E t \in SysThreads, abi \in ContractAbis : Mailbox_from(t, abi)
    \/ \E t \in SysThreads, w \in SysWrappers, abi \in {ParsedAbi} \cup ContractAbis :
           Wrapper(t, w, abi)
    \/ \E t \in SysThreads : WrapperReturn(t)
    \/ \E c \in SysCalls : EncodeCall(c)
    \/ \E ev \in SysLogs : EmitLog(ev)
    \/ DecodeCall
    \/ DecodeLog
    \/ Finish

SpecSys == Init /\ [][SysNext]_vars

\* Callers side by side, the registry already initialised.
ParInit == CodecInit /\ LazyReady /\ CallersInit

ParNext ==
    \/ \E c \in Callers, j \in EncodeJobs \cup DecodeJobs \cup DecodeLogJobs : Begin(c, j)
    \/ \E c \in Callers : EncodeStep(c)
    \/ \E c \in Callers : AttemptCall(c)
    \/ \E c \in Callers : AttemptLog(c)
    \/ \E c \in Callers : Leave(c)

SpecPar == ParInit /\ [][ParNext]_vars

\* decode_log run attempt by attempt on the log of every event.
DemuxCaller == 1

\* the log emitted for each of the nine events, the same log with only its
\* first topic left and no data, and the log without topics
DemuxLogs ==
    { EmittedLog(Event(MailboxEvents[i].variant,
                       BaseFields(AllFieldTypes(EthEvents[MailboxEvents[i].struct])))) :
          i \in 1..Len(MailboxEvents) }
    \cup { RawLog(<<EthEvents[MailboxEvents[i].struct].signature>>, <<>>) :
               i \in 1..Len(MailboxEvents) }
    \cup { NoLog }

DemuxLogJobs == { Job("decode_log", NoValue, <<>>, l) : l \in DemuxLogs }

DemuxNext ==
    \/ \E j \in DemuxLogJobs : Begin(DemuxCaller, j)
    \/ AttemptLog(DemuxCaller)
    \/ Leave(DemuxCaller)

SpecDemux == ParInit /\ [][DemuxNext]_vars

-----------------------------------------------------------------------------
(* Properties.                                                             *)

Decoded == result # NoResult

\* the struct of each MailboxCalls variant, in the order the enum declares them
EnumStructs == [i \in 1..Len(MailboxCalls) |-> MailboxCalls[i].struct]

\* the positions of `order` whose schema decodes the bytes in full
Decodes(order, structs, bytes) ==
    { i \in 1..Len(order) : EthCall_decode(structs[order[i]], bytes).kind = "Ok" }

Least(S) == CHOOSE x \in S : \A y \in S : x <= y

\* the value the schema at position i of `order` decodes from the bytes
DecodedAs(order, structs, variant, bytes, i) ==
    Call(variant, EthCall_decode(structs[order[i]], bytes).val)

\* C1: decoding the bytes that encode produced for a call value succeeds and
\* yields that very value, variant and arguments, for every MailboxCalls variant.
C1_RoundTrip ==
    (kind = "call" /\ edited = "no" /\ Decoded) =>
        (result.kind = "Ok" /\ result.val = origin)

C1_Witness ==
    /\ kind = "call" /\ edited = "no"
    /\ origin.variant = "Dispatch2"
    /\ Len(origin.fields[3]) = MaxBody
    /\ result.kind = "Ok" /\ result.val = origin

\* C2: when some schema decodes the call data in full, the multiplexer returns
\* the decode of the earliest such schema in declaration order (the order of
\* the enum for the Mailbox, the registration order for the two-schema
\* registry), never a later one.
C2_FirstMatch ==
    /\ (kind = "call" /\ Decoded) =>
           LET first == Least(Decodes(EnumStructs, EthCalls, data))
           IN  Decodes(EnumStructs, EthCalls, data) # {} =>
                   /\ result.kind = "Ok"
                   /\ result.val = DecodedAs(EnumStructs, EthCalls,
                                             MailboxCalls[first].variant, data, first)
    /\ (kind = "overload" /\ Decoded) =>
           LET first == Least(Decodes(registry, OverloadCalls, data))
           IN  Decodes(registry, OverloadCalls, data) # {} =>
                   /\ result.kind = "Ok"
                   /\ result.val = DecodedAs(registry, OverloadCalls,
                                             OverloadVariant(registry[first]), data, first)

C2_Witness ==
    /\ kind = "overload"
    /\ registry = <<"DispatchU32B32Call", "DispatchU32Call">>
    /\ Decodes(registry, OverloadCalls, data) = {1, 2}
    /\ result.kind = "Ok" /\ result.val.variant = "DispatchU32B32"

\* C3: decoding call data or a log always ends by returning a decoded value or
\* an error value, never by panicking, and a decoded value was read from
\* inside the data.
C3_NeverPanics ==
    Decoded =>
        /\ result.kind \in {"Ok", "Err"}
        /\ result.kind = "Ok" => result.hi <= Len(data)

C3_Witness ==
    /\ kind = "call" /\ edited = "truncated"
    /\ Len(data) < 4
    /\ result.kind = "Err"

\* C4: decoding a strict prefix of an encoded value either fails with a
\* decoding error or parses without reading at or past the prefix's length.
C4_TruncationSafety ==
    /\ (kind = "call" /\ edited = "truncated" /\ Decoded) =>
           \/ result.kind = "Err" /\ result.err[1] = "DecodingError"
           \/ result.kind = "Ok" /\ result.hi <= Len(data)
    /\ (kind = "log" /\ edited = "truncated" /\ Decoded) =>
           \/ result.kind = "Err" /\ result.err = "InvalidData"
           \/ result.kind = "Ok" /\ result.hi <= Len(data)

C4_Witness ==
    /\ kind = "call" /\ edited = "truncated"
    /\ Len(data) > 4
    /\ result.kind = "Ok" /\ result.hi = Len(data)

\* C5: when no registered call schema decodes the call data (unknown
\* selector, or every attempt's argument decode fails), decode fails with the
\* error NoMatchingSchema, an error of its own: not WrongSelector, the error
\* of one schema's attempt, and not DecodingError, the error of malformed
\* data.  The code returns DecodingError(InvalidData) (mailbox.rs:1126).
C5_NoMatchingSchema ==
    (kind = "call" /\ Decoded /\ Decodes(EnumStructs, EthCalls, data) = {}) =>
        /\ result.kind = "Err"
        /\ result.err \notin {WrongSelector} \cup
               {DecodingError(e) : e \in {"InvalidData", "InvalidName"}}
        /\ result.err[1] = "NoMatchingSchema"

\* call data with a selector of no function of the contract, decoded to the
\* error of malformed data
C5_Witness ==
    /\ kind = "call"
    /\ Len(data) >= 4 /\ SubSeq(data, 1, 4) = UnknownSelector
    /\ Decodes(EnumStructs, EthCalls, data) = {}
    /\ result = Err(DecodingError("InvalidData"))

\* topic 0 is the signature of a registered event
Matched ==
    /\ topics # <<>>
    /\ \E i \in 1..Len(MailboxEvents) :
           topics[1] = EthEvents[MailboxEvents[i].struct].signature

\* C6: decode_log tells its two failure causes apart: it fails with
\* NoMatchingSchema when topic 0 is the signature of no registered event, and
\* with a decoding error, another error, when topic 0 matches a registered
\* event whose fields do not decode.  The code returns Error::InvalidData in
\* both cases (mailbox.rs:573).
C6_TwoFailureCauses ==
    (kind = "log" /\ Decoded /\ result.kind = "Err") =>
        /\ ~Matched => result.err = "NoMatchingSchema"
        /\ Matched => result.err # "NoMatchingSchema"
        /\ Matched => result.err # MailboxEvents_decode_log(NoLog).err

\* a log whose topic 0 is a registered event's signature and whose other
\* topics are missing fails with the very error of the log with no topic
C6_Witness ==
    /\ kind = "log" /\ edited = "corrupted"
    /\ Matched
    /\ Len(topics) = 1
    /\ result = Err("InvalidData")
    /\ result = MailboxEvents_decode_log(NoLog)

\* C7: a log as emitted decodes to the event's fields, the indexed ones taken
\* from topics 1.. in declared order and the others from data; a Dispatch log
\* has 4 topics, sender, destination and recipient are topics 1, 2 and 3 and
\* message is exactly the length-prefixed bytes of data.
C7_EventFieldSplit ==
    (kind = "log" /\ edited = "no" /\ Decoded) =>
        /\ result.kind = "Ok" /\ result.val = origin
        /\ origin.variant = "DispatchFilter" =>
               /\ Len(topics) = 4
               /\ result.val.fields[1] = SubSeq(topics[2], 13, 32)
               /\ result.val.fields[2] = SubSeq(topics[3], 29, 32)
               /\ result.val.fields[3] = topics[4]
               /\ result.val.fields[4] =
                      SubSeq(data, 65, 64 + Len(result.val.fields[4]))
               /\ pad_u32(Len(result.val.fields[4])) = SubSeq(data, 33, 64)

C7_Witness ==
    /\ kind = "log" /\ edited = "no"
    /\ origin.variant = "DispatchFilter"
    /\ Len(topics) = 4
    /\ result.kind = "Ok"
    /\ Len(result.val.fields[4]) = MaxBody

\* C8: with dispatch(uint32) and dispatch(uint32,bytes32) registered under one
\* selector S, call data S followed by exactly one word decodes as
\* dispatch(uint32), in either registration order.
C8_OverloadResolution ==
    (kind = "overload" /\ Decoded
        /\ Len(data) = 36 /\ SubSeq(data, 1, 4) = OverloadSelector) =>
        /\ result.kind = "Ok"
        /\ result.val = Call("DispatchU32", <<SubSeq(data, 33, 36)>>)

C8_Witness ==
    /\ kind = "overload"
    /\ registry[1] = "DispatchU32B32Call"
    /\ Len(data) = 36 /\ SubSeq(data, 1, 4) = OverloadSelector
    /\ result.kind = "Ok" /\ result.val.variant = "DispatchU32"

\* C9: when exactly one schema decodes the call data, the multiplexer returns
\* that schema's variant, wherever it stands in the order of attempts.
C9_SoleCandidate ==
    /\ (kind = "call" /\ Decoded) =>
           LET clean == Decodes(EnumStructs, EthCalls, data)
           IN  \A i \in 1..Len(MailboxCalls) :
                   clean = {i} =>
                       (result.kind = "Ok" /\ result.val.variant = MailboxCalls[i].variant)
    /\ (kind = "overload" /\ Decoded) =>
           LET clean == Decodes(registry, OverloadCalls, data)
           IN  \A i \in 1..Len(registry) :
                   clean = {i} =>
                       (result.kind = "Ok" /\ result.val.variant = OverloadVariant(registry[i]))

C9_Witness ==
    /\ kind = "call" /\ edited = "raw"
    /\ Decodes(EnumStructs, EthCalls, data) = {Len(MailboxCalls)}
    /\ result.kind = "Ok" /\ result.val.variant = "TransferOwnership"

\* C10: however the threads interleave, the initializer of MAILBOX_ABI runs at
\* most once, no thread gets a registry that is not the fully parsed one, and
\* all threads get the same value.
C10_ComputeOnce ==
    /\ initRuns <= 1
    /\ \A t \in Threads : \A k \in 1..Len(seen[t]) : seen[t][k] = ParsedAbi
    /\ \A t, u \in Threads : \A k \in 1..Len(seen[t]) : \A l \in 1..Len(seen[u]) :
           seen[t][k] = seen[u][l]

C10_Witness ==
    \E t, u, v \in Threads :
        /\ t # u /\ u # v /\ t # v
        /\ Len(seen[t]) >= 1 /\ Len(seen[u]) >= 1
        /\ pc[v] = "wait"
        /\ initRuns = 1

\* C11: whatever the accesses so far, repeated Mailbox::new calls included,
\* the registry equals by value every registry observed before, the first one
\* included, and holds exactly the entries of __ABI: none added, none removed.
C11_Idempotent ==
    \A t \in Threads : \A k \in 1..Len(seen[t]) :
        /\ seen[t][k] = cell
        /\ seen[t][k] = seen[t][1]
        /\ cell.functions = Entries("function")
        /\ cell.events = Entries("event")
        /\ cell.constructor = Entries("constructor")

C11_Witness ==
    \E t, u \in Threads :
        /\ t # u
        /\ Len(seen[t]) >= 2
        /\ Len(seen[u]) >= 1
        /\ seen[t][2] = seen[u][1]
        /\ Cardinality(cell.functions) = 26

\* C12: once the registry is initialized no step changes it; Mailbox::new, the
\* wrapper methods, encode, decode and decode_log leave the shared registry
\* and every contract's clone of it as they were.
C12_ReadOnly ==
    [][ /\ once = "complete" => (once' = "complete" /\ cell' = cell)
        /\ codecVars' # codecVars => UNCHANGED <<once, cell, seen>>
        /\ \A t \in Threads :
               /\ SubSeq(seen'[t], 1, Len(seen[t])) = seen[t]
               /\ (pc'[t] # pc[t] /\ "called" \in {pc[t], pc'[t]}) =>
                      UNCHANGED <<once, cell, seen>> ]_vars

C12_Witness ==
    /\ once = "complete" /\ cell = ParsedAbi
    /\ \E t, u \in Threads :
           /\ pc[t] = "called"
           /\ pc[u] = "clone"
    /\ kind = "call" /\ result.kind = "Ok"

\* C13: encode, decode and decode_log are independent of how concurrent
\* callers interleave: whatever the other callers do between the attempts
\* of a caller's operation, the result the caller gets is the one result
\* that operation has on the caller's own input, written out here value by
\* value: the bytes of dispatch(7, 0x00..01, "hi"), the call decoded from
\* them, the error for the bytes cut off inside the length word, the
\* DispatchId event of its log and the error for the log without topics;
\* two callers given the same input get the same result.
C13_InterleavingIndependent ==
    LET id == Zeros(31) \o <<1>>
        call == Call("Dispatch0", << <<0, 0, 0, 7>>, id, <<104, 105>> >>)
        bytes == <<250, 49, 222, 1>>
                     \o Zeros(31) \o <<7>> \o id \o Zeros(31) \o <<96>>
                     \o Zeros(31) \o <<2>> \o <<104, 105>> \o Zeros(30)
        cut == SubSeq(bytes, 1, 4 + 4 * 32 - 1)
        log == RawLog(<<EthEvents["DispatchIdFilter"].signature, id>>, <<>>)
        alone ==
            << [job |-> Job("encode", call, <<>>, NoLog),
                out |-> Ok(bytes, 0)],
               [job |-> Job("decode", NoValue, bytes, NoLog),
                out |-> Ok(call, 4 + 4 * 32 + 2)],
               [job |-> Job("decode", NoValue, cut, NoLog),
                out |-> Err(DecodingError("InvalidData"))],
               [job |-> Job("decode_log", NoValue, <<>>, log),
                out |-> Ok(Event("DispatchIdFilter", <<id>>), 0)],
               [job |-> Job("decode_log", NoValue, <<>>, NoLog),
                out |-> Err("InvalidData")] >>
    IN  /\ \A c \in Callers :
               out[c] # NoResult =>
                   \E k \in 1..Len(alone) :
                       job[c] = alone[k].job /\ out[c] = alone[k].out
        /\ \A c, d \in Callers :
               (job[c] = job[d] /\ out[c] # NoResult /\ out[d] # NoResult) =>
                   out[c] = out[d]

\* a decode has returned its value while another caller is in the middle
\* of a decode_log and a third operation, a decode of the cut-off bytes,
\* has already failed
C13_Witness ==
    \E c, d \in Callers :
        /\ c # d
        /\ job[c].op = "decode" /\ job[c].bytes = ValidCallData
        /\ out[c].kind = "Ok" /\ out[c].val = ParCall
        /\ job[d].op = "decode_log" /\ at[d] > 1 /\ out[d] = NoResult
        /\ fails >= 1

\* C14: the bytes encode produces for a call of n arguments are, after the
\* selector, n head slots of 32 bytes in argument order; a static argument's
\* slot is its word; a bytes argument's slot is the offset, counted from the
\* start of the argument block, of its length word, which is followed by the
\* content padded to a word boundary; the first tail starts right after the
\* head, each further tail right after the tail of the previous bytes
\* argument, and the block ends with the last tail.
C14_HeadTailLayout ==
    (kind = "call" /\ edited = "no") =>
        LET arm == CHOOSE a \in { MailboxCalls[i] : i \in 1..Len(MailboxCalls) } :
                       a.variant = origin.variant
            types == EthCalls[arm.struct].types
            n == Len(types)
            block == SubSeq(data, 5, Len(data))
            slot(i) == SubSeq(block, 32 * (i - 1) + 1, 32 * i)
            dyn == { i \in 1..n : types[i] = "bytes" }
            off(i) == as_usize(slot(i)).val
            size(i) == 32 + ((Len(origin.fields[i]) + 31) \div 32) * 32
            prev(i) == CHOOSE j \in dyn : j < i /\ \A k \in dyn : k < i => k <= j
        IN  /\ Len(block) >= 32 * n
            /\ \A i \in (1..n) \ dyn :
                   slot(i) = static_word(into_token(types[i], origin.fields[i]))
            /\ \A i \in dyn :
                   /\ as_usize(slot(i)).kind = "Ok"
                   /\ off(i) = IF \E j \in dyn : j < i
                               THEN off(prev(i)) + size(prev(i))
                               ELSE 32 * n
                   /\ off(i) + size(i) <= Len(block)
                   /\ as_usize(SubSeq(block, off(i) + 1, off(i) + 32))
                          = Ok(Len(origin.fields[i]), 0)
                   /\ SubSeq(block, off(i) + 33, off(i) + 32 + Len(origin.fields[i]))
                          = origin.fields[i]
                   /\ \A k \in off(i) + 33 + Len(origin.fields[i])..off(i) + size(i) :
                          block[k] = 0
                   /\ (\A j \in dyn : j <= i) => Len(block) = off(i) + size(i)
            /\ dyn = {} => Len(block) = 32 * n

\* a call with two bytes arguments and a static argument after them, the
\* first of the two longer than a word
C14_Witness ==
    /\ kind = "call" /\ edited = "no"
    /\ origin.variant = "Dispatch2"
    /\ Len(origin.fields[3]) = MaxBody
    /\ Len(origin.fields[4]) = 2
    /\ Len(data) = 4 + 5 * 32 + 32 + ((MaxBody + 31) \div 32) * 32 + 64

\* C15: dispatch(uint32,bytes32,bytes) with destinationDomain = 7,
\* recipientAddress = 0x00..01 and messageBody = "hi" encodes to the selector
\* fa31de01 followed by exactly five words: 7, the recipient, the offset 96,
\* the length 2, and "hi" padded with zeros on the right.
C15_DispatchExample ==
    (/\ kind = "call" /\ edited = "no"
     /\ origin = Call("Dispatch0", << <<0, 0, 0, 7>>, Zeros(31) \o <<1>>, <<104, 105>> >>)) =>
        data = <<250, 49, 222, 1>>
                   \o Zeros(31) \o <<7>>
                   \o Zeros(31) \o <<1>>
                   \o Zeros(31) \o <<96>>
                   \o Zeros(31) \o <<2>>
                   \o <<104, 105>> \o Zeros(30)

C15_Witness ==
    /\ kind = "call" /\ edited = "no"
    /\ origin = Call("Dispatch0", << <<0, 0, 0, 7>>, Zeros(31) \o <<1>>, <<104, 105>> >>)
    /\ Len(data) = 4 + 5 * 32

\* C16: when the call data carries the selector of a schema and, for some
\* bytes argument of that schema, the offset in its head slot points outside
\* the argument block, or the length word found at the offset declares more
\* content than the block holds after it, decode returns
\* Err(DecodingError) and no value.
C16_BoundsValidation ==
    (kind = "call" /\ Decoded /\ Len(data) >= 4) =>
        \A a \in 1..Len(MailboxCalls) :
            LET types == EthCalls[MailboxCalls[a].struct].types
                block == SubSeq(data, 5, Len(data))
                slot(i) == SubSeq(block, 32 * (i - 1) + 1, 32 * i)
                offset(i) == as_usize(slot(i))
                length(i) == as_usize(SubSeq(block, offset(i).val + 1, offset(i).val + 32))
                outside(i) == offset(i).kind = "Err" \/ offset(i).val >= Len(block)
                overrun(i) ==
                    /\ offset(i).kind = "Ok"
                    /\ offset(i).val + 32 <= Len(block)
                    /\ \/ length(i).kind = "Err"
                       \/ length(i).val > Len(block) - offset(i).val - 32
            IN  (/\ SubSeq(data, 1, 4) = EthCalls[MailboxCalls[a].struct].selector
                 /\ \E i \in 1..Len(types) :
                        /\ types[i] = "bytes"
                        /\ Len(block) >= 32 * i
                        /\ outside(i) \/ overrun(i))
                    => result = Err(DecodingError("InvalidData"))

\* the length word of messageBody overwritten to declare 255 bytes
C16_Witness ==
    /\ kind = "call" /\ edited = "corrupted"
    /\ origin.variant = "Dispatch0"
    /\ Len(data) = 4 + 5 * 32
    /\ SubSeq(data, 4 + 64 + 1, 4 + 96) = Zeros(31) \o <<96>>
    /\ SubSeq(data, 4 + 96 + 1, 4 + 128) = Zeros(31) \o <<255>>
    /\ result = Err(DecodingError("InvalidData"))

C20_NoTrace ==
    fails >= 1 =>
        /\ once = "complete"
        /\ cell = ParsedAbi
        /\ \A c \in Callers :
               out[c] # NoResult =>
                   /\ (job[c].op = "decode" /\ job[c].bytes = ValidCallData) =>
                          (out[c].kind = "Ok" /\ out[c].val = ParCall)
                   /\ (job[c].op = "decode_log" /\ job[c].log = EmittedLog(ParEvent)) =>
                          (out[c].kind = "Ok" /\ out[c].val = ParEvent)

\* a decode has failed and a decode of the valid call data has returned its value
C20_Witness ==
    /\ fails >= 1
    /\ \E c \in Callers :
           /\ job[c].op = "decode" /\ job[c].bytes = ValidCallData
           /\ out[c].kind = "Ok" /\ out[c].val = ParCall
    /\ cell = ParsedAbi

\* C21: whenever decode returns a variant for call data, the data has at
\* least four bytes and its first four bytes are the selector of that
\* variant's call struct; a struct with another selector is never the one
\* returned.
C21_SelectorAgreement ==
    (kind = "call" /\ result.kind = "Ok") =>
        /\ Len(data) >= 4
        /\ \A i \in 1..Len(MailboxCalls) :
               result.val.variant = MailboxCalls[i].variant =>
                   SubSeq(data, 1, 4) = EthCalls[MailboxCalls[i].struct].selector

\* call data altered after the selector still decodes, to another value of
\* the variant its selector names
C21_Witness ==
    /\ kind = "call" /\ edited = "corrupted"
    /\ result.kind = "Ok"
    /\ result.val.variant = origin.variant
    /\ result.val # origin
    /\ SubSeq(data, 1, 4) = <<16, 184, 61, 192>>

\* C22: whenever decode_log returns a variant, topic 0 of the log is the
\* signature hash of that event; a log emitted for RequiredHookSet or
\* DefaultIsmSet is not returned as DefaultHookSetFilter and a log emitted for
\* ProcessId is not returned as DispatchIdFilter, although the layouts are
\* the same and DefaultHookSetFilter and DispatchIdFilter are tried first.
C22_TopicAgreement ==
    (kind = "log" /\ result.kind = "Ok") =>
        /\ topics # <<>>
        /\ \A i \in 1..Len(MailboxEvents) :
               result.val.variant = MailboxEvents[i].variant =>
                   topics[1] = EthEvents[MailboxEvents[i].struct].signature
        /\ (edited = "no" /\ origin.variant \in {"RequiredHookSetFilter", "DefaultIsmSetFilter"}) =>
               result.val.variant # "DefaultHookSetFilter"
        /\ (edited = "no" /\ origin.variant = "ProcessIdFilter") =>
               result.val.variant # "DispatchIdFilter"

\* a RequiredHookSet log, whose single address field DefaultHookSetFilter
\* would decode as well, comes back as RequiredHookSetFilter
C22_Witness ==
    /\ kind = "log" /\ edited = "no"
    /\ origin.variant = "RequiredHookSetFilter"
    /\ Len(topics) = 2
    /\ result.kind = "Ok"
    /\ result.val.variant = "RequiredHookSetFilter"

\* C23: decode_log starts with the first event struct and goes through
\* DefaultHookSet, DefaultIsmSet, Dispatch, DispatchId, Initialized,
\* OwnershipTransferred, Process, ProcessId, RequiredHookSet in this order:
\* a failed attempt is followed by the attempt for the next struct, a
\* successful attempt returns that struct's variant and ends the call, and
\* the error is returned only when all nine attempts have failed.  The log
\* emitted for the k-th event of this order is returned by the k-th attempt.
C23_DemuxOrder ==
    [][ \A c \in Callers :
            LET order == << "DefaultHookSetFilter", "DefaultIsmSetFilter", "DispatchFilter",
                            "DispatchIdFilter", "InitializedFilter",
                            "OwnershipTransferredFilter", "ProcessFilter",
                            "ProcessIdFilter", "RequiredHookSetFilter" >>
                succeeds(i) ==
                    EthEvent_decode_log(EthEvents[order[i]], job[c].log).kind = "Ok"
                emitted(k) ==
                    EmittedLog(Event(order[k], BaseFields(AllFieldTypes(EthEvents[order[k]]))))
            IN  /\ (job[c] = NoJob /\ job'[c].op = "decode_log") =>
                       (at'[c] = 1 /\ out'[c] = NoResult)
                /\ (job[c].op = "decode_log" /\ out[c] = NoResult
                        /\ <<at'[c], out'[c]>> # <<at[c], out[c]>>) =>
                       \/ /\ at[c] \in 1..9
                          /\ ~succeeds(at[c])
                          /\ at'[c] = at[c] + 1
                          /\ out'[c] = NoResult
                       \/ /\ at[c] \in 1..9
                          /\ succeeds(at[c])
                          /\ out'[c].kind = "Ok"
                          /\ out'[c].val.variant = order[at[c]]
                          /\ at'[c] = 0
                       \/ /\ at[c] = 10
                          /\ out'[c] = Err("InvalidData")
                          /\ at'[c] = 0
                /\ \A k \in 1..9 :
                       (job[c].op = "decode_log" /\ job[c].log = emitted(k)
                            /\ out[c] = NoResult /\ out'[c] # NoResult) =>
                           /\ at[c] = k
                           /\ out'[c].kind = "Ok"
                           /\ out'[c].val.variant = order[k]
                /\ (job[c].op = "decode_log" /\ out[c] = NoResult /\ out'[c].kind = "Err") =>
                       \A k \in 1..9 : job[c].log # emitted(k)
                /\ (job[c].op = "decode_log" /\ out[c] # NoResult) => at'[c] = at[c]
      ]_vars

\* the log of RequiredHookSet has been returned by the ninth attempt, after
\* an earlier decode_log has failed all nine
C23_Witness ==
    /\ job[DemuxCaller].op = "decode_log"
    /\ job[DemuxCaller].log =
           EmittedLog(Event("RequiredHookSetFilter",
                            BaseFields(AllFieldTypes(EthEvents["RequiredHookSetFilter"]))))
    /\ out[DemuxCaller].kind = "Ok"
    /\ out[DemuxCaller].val.variant = "RequiredHookSetFilter"
    /\ fails >= 1

\* C24: every static value is encoded as one 32-byte word, padded by type:
\* an integer (uint8, uint32, uint64, uint256), an address and a bool stand
\* in the low-order bytes with zero bytes before them, a bool being the byte
\* 0 or 1; a fixed-size byte array stands in the leading bytes with zero
\* bytes after it.  Checked on the arguments of every encoded call, on the
\* data of method_hash given a byte array shorter than 32 bytes, on every
\* encoded return struct and on the uint8 field of an Initialized log.
C24_StaticPadding ==
    LET right == {"uint8", "uint32", "uint64", "uint256", "address", "bool"}
        padded(p, x, w) ==
            /\ Len(w) = 32
            /\ p \in right =>
                   /\ SubSeq(w, 32 - Len(x) + 1, 32) = x
                   /\ \A k \in 1..32 - Len(x) : w[k] = 0
            /\ p = "bool" => (Len(x) = 1 /\ w[32] \in {0, 1})
            /\ p = "bytes32" =>
                   /\ SubSeq(w, 1, Len(x)) = x
                   /\ \A k \in Len(x) + 1..32 : w[k] = 0
    IN  /\ (kind = "call" /\ edited = "no") =>
               LET arm == CHOOSE a \in { MailboxCalls[i] : i \in 1..Len(MailboxCalls) } :
                              a.variant = origin.variant
                   types == EthCalls[arm.struct].types
               IN  \A i \in 1..Len(types) :
                       types[i] # "bytes" =>
                           padded(types[i], origin.fields[i],
                                  SubSeq(data, 4 + 32 * (i - 1) + 1, 4 + 32 * i))
        /\ (kind = "call" /\ edited = "short") =>
               /\ Len(data) = 36
               /\ padded("bytes32", origin.fields[1], SubSeq(data, 5, 36))
        /\ (kind = "return" /\ edited = "no") =>
               /\ Len(data) = 32
               /\ padded(EthReturns[origin.variant].types[1], origin.fields[1], data)
        /\ (kind = "log" /\ edited = "no" /\ origin.variant = "InitializedFilter") =>
               padded("uint8", origin.fields[1], data)

\* the data method_hash has built for `delivered` from a four-byte array:
\* the four bytes lead the word and 28 zero bytes follow
C24_Witness ==
    /\ kind = "call" /\ edited = "short"
    /\ origin.fields = << Fill(4, 171) >>
    /\ data = EthCalls["DeliveredCall"].selector \o Fill(4, 171) \o Zeros(28)
    /\ result.kind = "Ok"
    /\ result.val = Call("Delivered", << Fill(4, 171) \o Zeros(28) >>)

\* C25: every wrapper passes to method_hash a selector of a function of
\* MAILBOX_ABI, so on any Mailbox instance, after any sequence of wrapper
\* calls, the `expect("method not found (this should never happen)")` has
\* not panicked.  A Mailbox made by From<Contract<M>> (mailbox.rs:383-387)
\* looks the selector up in its Contract's own Abi, and the wrapper panics.
C25_WrappersNeverPanic ==
    \A t \in SysThreads : pc[t] # "panicked"

\* every wrapper's selector and arguments resolve in MAILBOX_ABI, one thread
\* is inside a wrapper call on a Mailbox built by Mailbox::new, and another,
\* which holds such a Mailbox too, has panicked in a wrapper of a Mailbox
\* built from a Contract over Abi::default()
C25_Witness ==
    /\ \A w \in 1..Len(Wrappers) : resolved[w].kind = "Ok"
    /\ \E t, u \in SysThreads :
           /\ t # u
           /\ pc[t] = "called" /\ held[t] = {ParsedAbi} /\ Len(seen[t]) >= 1
           /\ pc[u] = "panicked" /\ held[u] = {ParsedAbi, NoAbi} /\ Len(seen[u]) >= 1

\* C26: the 26 selectors of the binding, as passed by the wrappers and as
\* carried by the call structs, are pairwise distinct, the three dispatch and
\* the three quoteDispatch overloads included; hence at most one attempt of
\* the chain succeeds on any call data, and decode returns the same result
\* when the attempts are made in another order (checked for the reversed
\* order and for two rotations of it).
C26_DistinctSelectors ==
    /\ Cardinality({ Wrappers[w].selector : w \in 1..Len(Wrappers) }) = 26
    /\ \A i, j \in 1..Len(MailboxCalls) :
           i # j => EthCalls[MailboxCalls[i].struct].selector
                        # EthCalls[MailboxCalls[j].struct].selector
    /\ (kind = "call" /\ Decoded) =>
           LET n == Len(MailboxCallsDecodeChain)
               reversed == [i \in 1..n |-> MailboxCallsDecodeChain[n + 1 - i]]
               rotated(k) == [i \in 1..n |-> MailboxCallsDecodeChain[((i + k - 1) % n) + 1]]
           IN  /\ Cardinality(Decodes(EnumStructs, EthCalls, data)) <= 1
               /\ result = decode_chain(reversed, EthCalls, data, 1)
               /\ result = decode_chain(rotated(7), EthCalls, data, 1)
               /\ result = decode_chain(rotated(17), EthCalls, data, 1)

\* call data of one of the quoteDispatch overloads: exactly one attempt succeeds
C26_Witness ==
    /\ kind = "call" /\ edited = "no"
    /\ origin.variant = "QuoteDispatch"
    /\ Cardinality(Decodes(EnumStructs, EthCalls, data)) = 1
    /\ result.kind = "Ok" /\ result.val.variant = "QuoteDispatch"

\* C27: the enum agrees with the per-function structs. Each of the 26 From
\* impls builds the variant whose payload is the converted struct; and for
\* every call struct c whose conversion is the encoded value, the enum's
\* encode equals c's own encode, which begins with c's selector, and decode
\* of those bytes returns MailboxCalls::from(c).
C27_EnumAgreesWithStructs ==
    /\ Len(MailboxCalls_From) = Len(MailboxCalls)
    /\ \A i \in 1..Len(MailboxCalls_From) :
           \E j \in 1..Len(MailboxCalls) :
               /\ MailboxCalls[j].struct = MailboxCalls_From[i].struct
               /\ MailboxCalls[j].variant = MailboxCalls_From[i].variant
    /\ (kind = "call" /\ edited = "no") =>
           \A i \in 1..Len(MailboxCalls_From) :
               LET c == MailboxCalls_From[i].struct
               IN  MailboxCalls_from(c, origin.fields) = origin =>
                       /\ MailboxCalls_encode(MailboxCalls_from(c, origin.fields))
                              = EthCall_encode(EthCalls[c], origin.fields)
                       /\ data = EthCall_encode(EthCalls[c], origin.fields)
                       /\ SubSeq(data, 1, 4) = EthCalls[c].selector
                       /\ Decoded =>
                              /\ result.kind = "Ok"
                              /\ result.val = MailboxCalls_from(c, origin.fields)

\* a ProcessedAtCall converted, encoded and decoded back
C27_Witness ==
    /\ kind = "call" /\ edited = "no" /\ Decoded
    /\ origin = MailboxCalls_from("ProcessedAtCall", origin.fields)
    /\ data = EthCall_encode(EthCalls.ProcessedAtCall, origin.fields)
    /\ result.kind = "Ok"
    /\ result.val = MailboxCalls_from("ProcessedAtCall", origin.fields)

\* C28: call data of fewer than 4 bytes, the empty sequence included, is
\* decoded by none of the 26 call structs, the zero-argument ones included,
\* and decode returns the InvalidData decoding error; decode_log of a log
\* without topics returns InvalidData.
C28_ShortInputIsInvalidData ==
    /\ (kind = "call" /\ Decoded /\ Len(data) < 4) =>
           /\ result = Err(DecodingError("InvalidData"))
           /\ \A i \in 1..Len(MailboxCalls) :
                  EthCall_decode(EthCalls[MailboxCalls[i].struct], data).kind = "Err"
    /\ (kind = "log" /\ Decoded /\ topics = <<>>) =>
           result = Err("InvalidData")

\* the encoding of VERSION() cut down to nothing has been decoded
C28_Witness ==
    /\ kind = "call" /\ edited = "truncated"
    /\ origin = Call("Version", <<>>)
    /\ data = <<>>
    /\ result = Err(DecodingError("InvalidData"))

\* C29: every host integer type holds every value of the ABI type it stands
\* for (uint8 as u8, uint32 as u32, uint48 as u64 for processedAt, uint256
\* as U256): a return word, a call argument word or an event field word
\* whose value lies within the declared ABI range is converted to a host
\* value that, padded back to 32 bytes, is the same word; nothing is
\* truncated or wrapped.
C29_HostIntegersHoldAbiRange ==
    LET abi_bytes(p) == CASE p = "uint8" -> 1
                          [] p = "uint32" -> 4
                          [] p = "uint48" -> 6
                          [] p = "uint64" -> 8
                          [] p = "uint256" -> 32
        integers == {"uint8", "uint32", "uint48", "uint64", "uint256"}
        in_range(p, w) == /\ Len(w) = 32
                          /\ \A i \in 1..(32 - abi_bytes(p)) : w[i] = 0
        widened(x) == Zeros(32 - Len(x)) \o x
    IN  /\ \A r \in DOMAIN EthReturns :
               EthReturns[r].types[1] \in integers =>
                   abi_bytes(EthReturns[r].types[1])
                       >= abi_bytes(abi_output(EthReturns[r].function))
        /\ (kind = "return" /\ Decoded
                /\ EthReturns[origin.variant].types[1] \in integers
                /\ in_range(abi_output(EthReturns[origin.variant].function), data)) =>
               /\ result.kind = "Ok"
               /\ widened(result.val[1]) = data
        /\ (kind = "call" /\ Decoded /\ result.kind = "Ok") =>
               LET types == EthCalls[EnumStructs[
                                CHOOSE i \in 1..Len(MailboxCalls) :
                                    MailboxCalls[i].variant = result.val.variant]].types
               IN  \A i \in 1..Len(types) :
                       LET w == SubSeq(data, 4 + 32 * (i - 1) + 1, 4 + 32 * i)
                       IN  (types[i] \in integers /\ in_range(types[i], w)) =>
                               widened(result.val.fields[i]) = w
        /\ (kind = "log" /\ Decoded /\ result.kind = "Ok"
                /\ result.val.variant = "InitializedFilter"
                /\ in_range("uint8", SubSeq(data, 1, 32))) =>
               widened(result.val.fields[1]) = SubSeq(data, 1, 32)
        /\ (kind = "log" /\ Decoded /\ result.kind = "Ok"
                /\ result.val.variant = "ProcessFilter"
                /\ in_range("uint32", topics[2])) =>
               widened(result.val.fields[1]) = topics[2]

\* processedAt has returned the largest uint48, which no u32 holds
C29_Witness ==
    /\ kind = "return"
    /\ origin.variant = "ProcessedAtReturn"
    /\ data = Zeros(26) \o Fill(6, 255)
    /\ result.kind = "Ok"
    /\ result.val = << Zeros(2) \o Fill(6, 255) >>

====
